---- MODULE Spec2Model ----
(***************************************************************************)
(* A model of the travel content backend: the Ollama inference client,     *)
(* the prompt builders, the label-prefixed extractors and the content      *)
(* services of src/src/services/weather.service.ts.                        *)
(*                                                                         *)
(* Text is a sequence of one-character strings, so that split, trim,       *)
(* indexOf, substring and parseInt are computed as the JavaScript code     *)
(* computes them.  An emoji glyph is one element of such a sequence.       *)
(***************************************************************************)
EXTENDS Integers, Sequences, FiniteSets, TLC

(***************************************************************************)
(* Bounds of the model                                                     *)
(***************************************************************************)
\* the largest number of lines of a model reply
MaxLines == 2
\* the largest number of half-days between the earliest and the latest date
MaxHalfDays == 6
\* the largest number of entries of a model listing
MaxModels == 2
\* the largest number of calls made side by side on the client
MaxCalls == 3

(***************************************************************************)
(* JavaScript string primitives                                            *)
(***************************************************************************)
Whitespace == {" ", "\t", "\n", "\r"}

SetMin(S) == CHOOSE x \in S : \A y \in S : x <= y
SetMax(S) == CHOOSE x \in S : \A y \in S : x >= y

\* String.prototype.trim
Trim(s) ==
  LET keep == {i \in 1..Len(s) : s[i] \notin Whitespace}
  IN IF keep = {} THEN <<>> ELSE SubSeq(s, SetMin(keep), SetMax(keep))

\* String.prototype.startsWith
StartsWith(s, pat) ==
  /\ Len(pat) <= Len(s)
  /\ SubSeq(s, 1, Len(pat)) = pat

\* String.prototype.indexOf: the 0-based index of the first occurrence, or -1
IndexOf(s, pat) ==
  LET at == {i \in 1..(Len(s) - Len(pat) + 1) : SubSeq(s, i, i + Len(pat) - 1) = pat}
  IN IF at = {} THEN -1 ELSE SetMin(at) - 1

\* String.prototype.substring(from), from 0-based
SubstringFrom(s, from) == SubSeq(s, from + 1, Len(s))

\* String.prototype.substring(0, n)
SubstringTo(s, n) == SubSeq(s, 1, IF n < Len(s) THEN n ELSE Len(s))

\* String.prototype.split(sep) for a one-character separator: the pieces
\* between the separators, in order; a text without separator is one piece
Split(s, sep) ==
  LET at == {i \in 1..Len(s) : s[i] = sep}
      nth(k) == IF k = 0 THEN 0
                ELSE IF k = Cardinality(at) + 1 THEN Len(s) + 1
                ELSE CHOOSE i \in at : Cardinality({j \in at : j < i}) = k - 1
  IN [k \in 1..(Cardinality(at) + 1) |-> SubSeq(s, nth(k - 1) + 1, nth(k) - 1)]

\* Array.prototype.join(sep)
RECURSIVE Join(_, _)
Join(pieces, sep) ==
  IF pieces = <<>> THEN <<>>
  ELSE IF Len(pieces) = 1 THEN pieces[1]
  ELSE pieces[1] \o <<sep>> \o Join(Tail(pieces), sep)

\* Array.prototype.slice(1)
Slice1(pieces) == SubSeq(pieces, 2, Len(pieces))

UpperCase == <<"A","B","C","D","E","F","G","H","I","J","K","L","M",
               "N","O","P","Q","R","S","T","U","V","W","X","Y","Z">>
LowerCase == <<"a","b","c","d","e","f","g","h","i","j","k","l","m",
               "n","o","p","q","r","s","t","u","v","w","x","y","z">>

LowerChar(c) ==
  IF \E i \in 1..Len(UpperCase) : UpperCase[i] = c
  THEN LowerCase[CHOOSE i \in 1..Len(UpperCase) : UpperCase[i] = c]
  ELSE c

\* String.prototype.toLowerCase
ToLowerCase(s) == [i \in 1..Len(s) |-> LowerChar(s[i])]

Digits == <<"0","1","2","3","4","5","6","7","8","9">>
IsDigit(c) == \E i \in 1..Len(Digits) : Digits[i] = c
DigitValue(c) == (CHOOSE i \in 1..Len(Digits) : Digits[i] = c) - 1

\* the value of a sequence of decimal digits
RECURSIVE DigitsValue(_)
DigitsValue(ds) ==
  IF ds = <<>> THEN 0
  ELSE 10 * DigitsValue(SubSeq(ds, 1, Len(ds) - 1)) + DigitValue(ds[Len(ds)])

\* a number: NaN, or an integer
NaN == [nan |-> TRUE, value |-> 0]
Number(n) == [nan |-> FALSE, value |-> n]

\* parseInt(s): skips leading whitespace, reads an optional sign and the longest
\* run of decimal digits; NaN when there is no digit
ParseInt(s) ==
  LET nonWs == {i \in 1..Len(s) : s[i] \notin Whitespace}
      t == IF nonWs = {} THEN <<>> ELSE SubSeq(s, SetMin(nonWs), Len(s))
      signed == t # <<>> /\ t[1] \in {"-", "+"}
      body == IF signed THEN Tail(t) ELSE t
      stop == {i \in 1..Len(body) : ~IsDigit(body[i])}
      run == IF stop = {} THEN body ELSE SubSeq(body, 1, SetMin(stop) - 1)
  IN IF run = <<>> THEN NaN
     ELSE IF signed /\ t[1] = "-" THEN Number(0 - DigitsValue(run))
     ELSE Number(DigitsValue(run))

\* a || b for a number a and an integer b: NaN and 0 are falsy
NumberOr(a, b) == IF a.nan \/ a.value = 0 THEN b ELSE a.value

\* a || b on a string: the empty string is falsy
StringOr(a, b) == IF a = <<>> THEN b ELSE a

\* the decimal text of a natural number, as in a template literal
RECURSIVE NatToString(_)
NatToString(n) ==
  IF n < 10 THEN <<Digits[n + 1]>>
  ELSE NatToString(n \div 10) \o <<Digits[(n % 10) + 1]>>

\* a template literal's ${n} for an integer n
NumberToString(n) == IF n < 0 THEN <<"-">> \o NatToString(0 - n) ELSE NatToString(n)

(***************************************************************************)
(* Values that are not strings                                             *)
(***************************************************************************)
\* the value of a missing property
Undefined == <<"undefined">>
\* a JSON number where a string was expected
NumberValue == <<"number">>
\* Object.prototype.constructor, which every object literal inherits
ObjectConstructor == <<"function Object">>
\* Object.prototype itself, which the key "__proto__" of an object literal yields
ObjectPrototype == <<"object Object">>

NonStrings == {Undefined, NumberValue, ObjectConstructor, ObjectPrototype}
IsString(v) == v \notin NonStrings

\* a template literal's ${v} for a string or an inherited value
ToText(v) ==
  IF v = ObjectConstructor THEN <<"f","u","n","c","t","i","o","n"," ","O","b","j","e","c","t",
      "(",")"," ","{"," ","[","n","a","t","i","v","e"," ","c","o","d","e","]"," ","}">>
  ELSE IF v = ObjectPrototype THEN <<"[","o","b","j","e","c","t"," ","O","b","j","e","c","t",
      "]">>
  ELSE IF v = Undefined THEN <<"u","n","d","e","f","i","n","e","d">>
  ELSE v

\* one emoji glyph
Glyph(name) == <<name>>

(***************************************************************************)
(* WeatherService                                                          *)
(***************************************************************************)
LabelTemperature == <<"T","E","M","P","E","R","A","T","U","R","E",":">>
LabelCondition == <<"C","O","N","D","I","T","I","O","N",":">>
LabelEnglishCondition == <<"E","N","G","L","I","S","H","_","C","O","N","D","I","T","I","O",
    "N",":">>
LabelForecast == <<"F","O","R","E","C","A","S","T","_","E","N","G","L","I","S","H",":">>
LabelSummaryEnglish == <<"S","U","M","M","A","R","Y","_","E","N","G","L","I","S","H",":">>

DefaultTemperature == 25
OverflowThreshold == 50
DegradedSummaryChars == 300
DegradedActivitiesChars == 200

\* iconMap[condition.toLowerCase()] || default.  A property lookup on an object
\* literal also finds what Object.prototype provides: of its lower-case keys,
\* "constructor" yields the Object function and "__proto__" the prototype
\* object, both truthy.
GetWeatherIcon(condition) ==
  LET key == ToLowerCase(condition)
  IN CASE key = <<"s","u","n","n","y">> -> Glyph("sun")
       [] key = <<"c","l","e","a","r">> -> Glyph("sun")
       [] key = <<"p","a","r","t","l","y","-","c","l","o","u","d","y">> -> Glyph("sun-behind-cloud")
       [] key = <<"c","l","o","u","d","y">> -> Glyph("cloud")
       [] key = <<"o","v","e","r","c","a","s","t">> -> Glyph("cloud")
       [] key = <<"r","a","i","n","y">> -> Glyph("rain-cloud")
       [] key = <<"r","a","i","n">> -> Glyph("rain-cloud")
       [] key = <<"s","t","o","r","m","y">> -> Glyph("storm-cloud")
       [] key = <<"s","n","o","w">> -> Glyph("snowflake")
       [] key = <<"f","o","g">> -> Glyph("fog")
       [] key = <<"w","i","n","d","y">> -> Glyph("wind")
       [] key = <<"c","o","n","s","t","r","u","c","t","o","r">> -> ObjectConstructor
       [] key = <<"_","_","p","r","o","t","o","_","_">> -> ObjectPrototype
       [] OTHER -> Glyph("sun-behind-cloud")

\* trimmedLine.split(':').slice(1).join(':').trim()
AfterLabel(trimmedLine) == Trim(Join(Slice1(Split(trimmedLine, ":")), ":"))

\* Math.round, of a number that parseInt or the default made an integer
MathRound(n) == n

\* the try body of an extractor calls aiResponse.split, its catch branch calls
\* aiResponse.substring: each raises a TypeError on a value that is no string
TryBodyRaises(aiResponse) == ~IsString(aiResponse)
CatchBranchRaises(aiResponse) == ~IsString(aiResponse)

\* faulty locals: no value is set before the line pass
WeatherLocalsUnset ==
  [temperature |-> 0, condition |-> <<>>, englishCondition |-> <<>>,
   forecast |-> <<>>, summary |-> <<>>]

\* the locals of parseOllamaWeatherResponse before the line pass
WeatherLocals ==
  [temperature |-> DefaultTemperature,
   condition |-> <<"p","a","r","t","l","y","-","c","l","o","u","d","y">>,
   englishCondition |-> <<"P","l","e","a","s","a","n","t"," ","w","e","a","t","h","e","r">>,
   forecast |-> <<>>,
   summary |-> <<>>]

\* the body of the loop over the lines
WeatherLine(acc, line) ==
  LET trimmedLine == Trim(line)
  IN IF StartsWith(trimmedLine, LabelTemperature)
     THEN [acc EXCEPT !.temperature =
             NumberOr(ParseInt(Trim(Split(trimmedLine, ":")[2])), DefaultTemperature)]
     ELSE IF StartsWith(trimmedLine, LabelCondition)
     THEN [acc EXCEPT !.condition = ToLowerCase(Trim(Split(trimmedLine, ":")[2]))]
     ELSE IF StartsWith(trimmedLine, LabelEnglishCondition)
     THEN [acc EXCEPT !.englishCondition = Trim(Split(trimmedLine, ":")[2])]
     ELSE IF StartsWith(trimmedLine, LabelForecast)
     THEN [acc EXCEPT !.forecast = AfterLabel(trimmedLine)]
     ELSE IF StartsWith(trimmedLine, LabelSummaryEnglish)
     THEN [acc EXCEPT !.summary = AfterLabel(trimmedLine)]
     ELSE acc

\* a faulty line body: the value is read from the third piece, split(':')[2]
WeatherLineRaisesAtThirdPiece(line) ==
  LET trimmedLine == Trim(line)
  IN /\ \/ StartsWith(trimmedLine, LabelTemperature)
        \/ StartsWith(trimmedLine, LabelCondition)
        \/ StartsWith(trimmedLine, LabelEnglishCondition)
     /\ Len(Split(trimmedLine, ":")) < 3

\* the body of the loop raises a TypeError when split(':')[1] is undefined,
\* that is when a line that passed a label test has no second piece
WeatherLineRaises(line) ==
  LET trimmedLine == Trim(line)
  IN /\ \/ StartsWith(trimmedLine, LabelTemperature)
        \/ StartsWith(trimmedLine, LabelCondition)
        \/ StartsWith(trimmedLine, LabelEnglishCondition)
     /\ Len(Split(trimmedLine, ":")) < 2

\* the try body of parseOllamaWeatherResponse raises
WeatherTryBodyRaises(aiResponse) ==
  \/ TryBodyRaises(aiResponse)
  \/ \E i \in 1..Len(Split(aiResponse, "\n")) : WeatherLineRaises(Split(aiResponse, "\n")[i])

\* the loop over the lines, first line first
RECURSIVE WeatherLinePass(_)
WeatherLinePass(lines) ==
  IF lines = <<>> THEN WeatherLocals
  ELSE WeatherLine(WeatherLinePass(SubSeq(lines, 1, Len(lines) - 1)), lines[Len(lines)])

\* a faulty recovery: a value of exactly the threshold length is re-captured too
OverflowRecoveryInclusive(aiResponse, label, value) ==
  LET startIndex == IndexOf(aiResponse, label)
  IN IF startIndex # -1 /\ Len(value) <= OverflowThreshold
     THEN Trim(SubstringFrom(aiResponse, startIndex + Len(label)))
     ELSE value

\* "If summary is incomplete, extract the rest"
OverflowRecovery(aiResponse, label, value) ==
  LET startIndex == IndexOf(aiResponse, label)
  IN IF startIndex # -1 /\ Len(value) < OverflowThreshold
     THEN Trim(SubstringFrom(aiResponse, startIndex + Len(label)))
     ELSE value

\* the record built from the locals after the line pass and the recovery
WeatherRecord(acc, summary, city) ==
  [icon |-> GetWeatherIcon(acc.condition),
   temperature |-> MathRound(acc.temperature),
   condition |-> acc.englishCondition,
   forecast |-> StringOr(acc.forecast,
      ToText(GetWeatherIcon(acc.condition)) \o <<" ","F","o","r","e","c","a","s","t"," ","f",
          "o","r"," ">> \o city \o <<":"," ">>
        \o acc.englishCondition \o <<","," ","t","e","m","p","e","r","a","t","u","r","e"," ">>
        \o NumberToString(acc.temperature) \o Glyph("degree") \o <<"C">>),
   summary |-> StringOr(summary,
      <<"T","h","e"," ","w","e","a","t","h","e","r"," ","i","n"," ">> \o city \o <<" ","i","s"," ","e","x","p","e","c","t","e","d"," ",
          "t","o"," ","b","e"," ">> \o acc.englishCondition
        \o <<" ","w","i","t","h"," ","a"," ","t","e","m","p","e","r","a","t","u","r","e"," ",
            "o","f"," ">> \o NumberToString(acc.temperature)
        \o Glyph("degree") \o <<"C",".">>)]

\* the catch branch of parseOllamaWeatherResponse
DegradedWeatherRecord(aiResponse, city) ==
  [icon |-> Glyph("sun-behind-cloud"),
   temperature |-> DefaultTemperature,
   condition |-> <<"P","l","e","a","s","a","n","t"," ","w","e","a","t","h","e","r">>,
   forecast |-> Glyph("sun-behind-cloud") \o <<" ","F","o","r","e","c","a","s","t"," ","f",
       "o","r"," ">> \o city
                  \o <<":"," ","P","l","e","a","s","a","n","t"," ","w","e","a","t","h","e","r">>,
   summary |-> StringOr(SubstringTo(aiResponse, DegradedSummaryChars),
                        <<"T","h","e"," ","w","e","a","t","h","e","r"," ","i","n"," ">> \o city \o <<" ","l","o","o","k","s"," ","p","l",
                            "e","a","s","a","n","t",".">>)]

NoRecord == [none |-> TRUE]

\* parseOllamaWeatherResponse
ParseOllamaWeatherResponse(aiResponse, city) ==
  IF ~WeatherTryBodyRaises(aiResponse)
  THEN LET acc == WeatherLinePass(Split(aiResponse, "\n"))
           summary == OverflowRecovery(aiResponse, LabelSummaryEnglish, acc.summary)
       IN [raised |-> FALSE, path |-> "normal", record |-> WeatherRecord(acc, summary, city)]
  ELSE IF ~CatchBranchRaises(aiResponse)
  THEN [raised |-> FALSE, path |-> "degraded",
        record |-> DegradedWeatherRecord(aiResponse, city)]
  ELSE [raised |-> TRUE, path |-> "degraded", record |-> NoRecord]

GetFallbackWeatherData ==
  [icon |-> <<>>,
   temperature |-> -1,
   condition |-> <<"U","n","k","n","o","w","n">>,
   forecast |-> <<"U","n","a","b","l","e"," ","t","o"," ","l","o","a","d"," ","w","e","a","t",
       "h","e","r"," ","f","o","r","e","c","a","s","t"," ","a","t"," ","t","h","i","s"," ",
       "t","i","m","e">>,
   summary |-> <<"U","n","a","b","l","e"," ","t","o"," ","l","o","a","d"," ","w","e","a","t",
       "h","e","r"," ","f","o","r","e","c","a","s","t"," ","a","t"," ","t","h","i","s"," ",
       "t","i","m","e">>]

(***************************************************************************)
(* RecommendationService: the extractors                                   *)
(***************************************************************************)
LabelTitle == <<"T","I","T","L","E",":">>
LabelDescription == <<"D","E","S","C","R","I","P","T","I","O","N",":">>
LabelActivities == <<"A","C","T","I","V","I","T","I","E","S",":">>
LabelSummary == <<"S","U","M","M","A","R","Y",":">>
LabelTip == <<"T","I","P",":">>

\* the locals of parseOllamaTripPlanResponse before the line pass
TripPlanLocals == [title |-> <<>>, description |-> <<>>, activities |-> <<>>, summary |-> <<>>]

\* the body of the loop over the lines
TripPlanLine(acc, line) ==
  LET trimmedLine == Trim(line)
  IN IF StartsWith(trimmedLine, LabelTitle)
     THEN [acc EXCEPT !.title = AfterLabel(trimmedLine)]
     ELSE IF StartsWith(trimmedLine, LabelDescription)
     THEN [acc EXCEPT !.description = AfterLabel(trimmedLine)]
     ELSE IF StartsWith(trimmedLine, LabelActivities)
     THEN [acc EXCEPT !.activities = AfterLabel(trimmedLine)]
     ELSE IF StartsWith(trimmedLine, LabelSummary)
     THEN [acc EXCEPT !.summary = AfterLabel(trimmedLine)]
     ELSE acc

\* the loop over the lines, first line first
RECURSIVE TripPlanLinePass(_)
TripPlanLinePass(lines) ==
  IF lines = <<>> THEN TripPlanLocals
  ELSE TripPlanLine(TripPlanLinePass(SubSeq(lines, 1, Len(lines) - 1)), lines[Len(lines)])

\* the record built from the locals after the line pass and the recovery
TripPlanRecord(acc, summary, city) ==
  [icon |-> Glyph("map"),
   title |-> StringOr(acc.title, <<"T","r","i","p"," ","t","o"," ">> \o city),
   description |-> StringOr(acc.description,
      <<"D","i","s","c","o","v","e","r"," ","t","h","e"," ","b","e","s","t"," ","o","f"," ">> \o city \o <<" ","w","i","t","h"," ","o","u","r"," ","c","u",
          "r","a","t","e","d"," ","i","t","i","n","e","r","a","r","y",".">>),
   activities |-> StringOr(acc.activities,
      <<"E","x","p","l","o","r","e"," ">> \o city \o <<","," ","v","i","s","i","t"," ","l","o","c","a","l"," ","a",
          "t","t","r","a","c","t","i","o","n","s",","," ","a","n","d"," ","t","r","y"," ",
          "l","o","c","a","l"," ","c","u","i","s","i","n","e",".">>),
   summary |-> StringOr(summary,
      <<"D","i","s","c","o","v","e","r"," ","t","h","e"," ","b","e","s","t"," ","o","f"," ">> \o city
        \o <<" ","w","i","t","h"," ","o","u","r"," ","c","u","r","a","t","e","d"," ","r","e",
            "c","o","m","m","e","n","d","a","t","i","o","n","s"," ","f","o","r"," ","a","c",
            "t","i","v","i","t","i","e","s",","," ","a","t","t","r","a","c","t","i","o","n",
            "s",","," ","a","n","d"," ","d","i","n","i","n","g"," ","e","x","p","e","r","i",
            "e","n","c","e","s",".">>)]

\* the catch branch of parseOllamaTripPlanResponse
DegradedTripPlanRecord(aiResponse, city) ==
  [icon |-> Glyph("map"),
   title |-> <<"T","r","i","p"," ","t","o"," ">> \o city,
   description |-> <<"D","i","s","c","o","v","e","r"," ","t","h","e"," ","b","e","s","t"," ",
       "o","f"," ">> \o city \o <<" ","w","i","t","h"," ","o","u","r",
       " ","c","u","r","a","t","e","d"," ","i","t","i","n","e","r","a","r","y",".">>,
   activities |-> StringOr(SubstringTo(aiResponse, DegradedActivitiesChars),
      <<"E","x","p","l","o","r","e"," ">> \o city \o <<","," ","v","i","s","i","t"," ","l","o","c","a","l"," ","a",
          "t","t","r","a","c","t","i","o","n","s",","," ","a","n","d"," ","t","r","y"," ",
          "l","o","c","a","l"," ","c","u","i","s","i","n","e",".">>),
   summary |-> StringOr(SubstringTo(aiResponse, DegradedSummaryChars),
      <<"D","i","s","c","o","v","e","r"," ","t","h","e"," ","b","e","s","t"," ","o","f"," ">> \o city \o <<" ","w","i","t","h"," ","o","u","r"," ","c","u",
          "r","a","t","e","d"," ","r","e","c","o","m","m","e","n","d","a","t","i","o","n",
          "s",".">>)]

\* parseOllamaTripPlanResponse
ParseOllamaTripPlanResponse(aiResponse, city) ==
  IF ~TryBodyRaises(aiResponse)
  THEN LET acc == TripPlanLinePass(Split(aiResponse, "\n"))
           summary == OverflowRecovery(aiResponse, LabelSummary, acc.summary)
       IN [raised |-> FALSE, path |-> "normal", record |-> TripPlanRecord(acc, summary, city)]
  ELSE IF ~CatchBranchRaises(aiResponse)
  THEN [raised |-> FALSE, path |-> "degraded",
        record |-> DegradedTripPlanRecord(aiResponse, city)]
  ELSE [raised |-> TRUE, path |-> "degraded", record |-> NoRecord]

GetFallbackTripPlanData(city) ==
  [icon |-> Glyph("map"),
   title |-> <<"T","r","i","p"," ","P","l","a","n","n","i","n","g">>,
   description |-> <<"U","n","a","b","l","e"," ","t","o"," ","l","o","a","d"," ","t","r","i",
       "p"," ","p","l","a","n","n","i","n","g"," ","s","u","g","g","e","s","t","i","o","n",
       "s"," ","f","o","r"," ">> \o city
                     \o <<" ","a","t"," ","t","h","i","s"," ","t","i","m","e">>,
   activities |-> <<"U","n","a","b","l","e"," ","t","o"," ","l","o","a","d"," ","t","r","i",
       "p"," ","p","l","a","n","n","i","n","g"," ","s","u","g","g","e","s","t","i","o","n",
       "s"," ","a","t"," ","t","h","i","s"," ","t","i","m","e">>,
   summary |-> <<"U","n","a","b","l","e"," ","t","o"," ","l","o","a","d"," ","t","r","i","p",
       " ","p","l","a","n","n","i","n","g"," ","s","u","g","g","e","s","t","i","o","n","s",
       " ","a","t"," ","t","h","i","s"," ","t","i","m","e">>]

DefaultTip ==
  <<"C","o","n","s","i","d","e","r"," ","u","s","i","n","g"," ","p","u","b","l","i","c"," ",
      "t","r","a","n","s","p","o","r","t","a","t","i","o","n",","," ","b","u","y","i","n",
      "g"," ","a","t","t","r","a","c","t","i","o","n"," ","t","i","c","k","e","t","s"," ",
      "i","n"," ","a","d","v","a","n","c","e",","," ","a","n","d"," ","l","o","o","k","i",
      "n","g"," ","f","o","r"," ","l","o","c","a","l"," ","d","e","a","l","s"," ","t","o",
      " ","s","a","v","e"," ","m","o","n","e","y"," ","o","n"," ","y","o","u","r"," ","t",
      "r","i","p",".">>

\* a faulty loop: it does not break, so the last line with the label decides
TipLinePassLast(lines) ==
  LET at == {i \in 1..Len(lines) : StartsWith(Trim(lines[i]), LabelTip)}
  IN IF at = {} THEN <<>> ELSE AfterLabel(Trim(lines[SetMax(at)]))

\* the loop of parseMoneySavingTipsResponse: the first line that starts with
\* the label decides, the loop breaks there
TipLinePass(lines) ==
  LET at == {i \in 1..Len(lines) : StartsWith(Trim(lines[i]), LabelTip)}
  IN IF at = {} THEN <<>> ELSE AfterLabel(Trim(lines[SetMin(at)]))

\* the catch branch of parseMoneySavingTipsResponse
DegradedTipRecord(aiResponse) ==
  [tip |-> StringOr(SubstringTo(aiResponse, DegradedSummaryChars), DefaultTip)]

\* parseMoneySavingTipsResponse
ParseMoneySavingTipsResponse(aiResponse) ==
  IF ~TryBodyRaises(aiResponse)
  THEN LET tip == OverflowRecovery(aiResponse, LabelTip, TipLinePass(Split(aiResponse, "\n")))
       IN [raised |-> FALSE, path |-> "normal", record |-> [tip |-> StringOr(tip, DefaultTip)]]
  ELSE IF ~CatchBranchRaises(aiResponse)
  THEN [raised |-> FALSE, path |-> "degraded", record |-> DegradedTipRecord(aiResponse)]
  ELSE [raised |-> TRUE, path |-> "degraded", record |-> NoRecord]

GetFallbackMoneySavingTips ==
  [tip |-> <<"C","o","n","s","i","d","e","r"," ","u","s","i","n","g"," ","p","u","b","l","i",
      "c"," ","t","r","a","n","s","p","o","r","t","a","t","i","o","n",","," ","b","u","y",
      "i","n","g"," ","a","t","t","r","a","c","t","i","o","n"," ","t","i","c","k","e","t",
      "s"," ","i","n"," ","a","d","v","a","n","c","e",","," ","a","n","d"," ","l","o","o",
      "k","i","n","g"," ","f","o","r"," ","l","o","c","a","l"," ","d","e","a","l","s"," ",
      "t","o"," ","s","a","v","e"," ","m","o","n","e","y"," ","o","n"," ","y","o","u","r",
      " ","t","r","i","p",".">>]

(***************************************************************************)
(* OllamaService.generateResponse                                          *)
(***************************************************************************)
NoError == [id |-> "none", name |-> "none", code |-> "none", message |-> "none"]

\* what axios rejects with: the server is not listening, the 60 s timeout
\* expired, the server answered with an HTTP error status
ConnectionRefused ==
  [id |-> "axios-1", name |-> "AxiosError", code |-> "ECONNREFUSED",
   message |-> "connect ECONNREFUSED 127.0.0.1:11434"]
TimeoutExceeded ==
  [id |-> "axios-2", name |-> "AxiosError", code |-> "ECONNABORTED",
   message |-> "timeout of 60000ms exceeded"]
BadResponse ==
  [id |-> "axios-3", name |-> "AxiosError", code |-> "ERR_BAD_RESPONSE",
   message |-> "Request failed with status code 500"]
AxiosErrors == {ConnectionRefused, TimeoutExceeded, BadResponse}

\* what response.data.response.trim() raises when the field is no string
TrimTypeError ==
  [id |-> "type-error", name |-> "TypeError", code |-> "undefined",
   message |-> "response.data.response.trim is not a function"]

\* the error generateResponse makes for a refused connection
OllamaNotRunning ==
  [id |-> "new-error", name |-> "Error", code |-> "undefined",
   message |-> "Ollama not running. Please start with: ollama serve"]

\* the settled POST /api/generate: fulfilled with a body, or rejected
Fulfilled(response) == [ok |-> TRUE, response |-> response, error |-> NoError]
Rejected(error) == [ok |-> FALSE, response |-> Undefined, error |-> error]

\* a faulty catch block: every failure is replaced by the new error
GenerateResponseCatchWraps(error) ==
  [raised |-> TRUE, value |-> Undefined, error |-> OllamaNotRunning, errorLines |-> 1]

\* the catch block of generateResponse
GenerateResponseCatch(error) ==
  [raised |-> TRUE, value |-> Undefined,
   error |-> IF error.code = "ECONNREFUSED" THEN OllamaNotRunning ELSE error,
   errorLines |-> 1]

\* generateResponse, from the settled request on
GenerateResponse(settled) ==
  IF ~settled.ok THEN GenerateResponseCatch(settled.error)
  ELSE IF ~IsString(settled.response) THEN GenerateResponseCatch(TrimTypeError)
  ELSE [raised |-> FALSE, value |-> Trim(settled.response), error |-> NoError,
        errorLines |-> 0]

(***************************************************************************)
(* The content services                                                    *)
(***************************************************************************)
\* the extractor of each content kind
Parse(kind, aiResponse, city) ==
  CASE kind = "weather" -> ParseOllamaWeatherResponse(aiResponse, city)
    [] kind = "trip" -> ParseOllamaTripPlanResponse(aiResponse, city)
    [] kind = "tips" -> ParseMoneySavingTipsResponse(aiResponse)

\* the static fallback record of each content kind
Fallback(kind, city) ==
  CASE kind = "weather" -> GetFallbackWeatherData
    [] kind = "trip" -> GetFallbackTripPlanData(city)
    [] kind = "tips" -> GetFallbackMoneySavingTips

\* generateCompleteWeatherData, generateTripPlanData, generateMoneySavingTipsData
\* from the outcome of generateResponse on: extract; log and rethrow what is raised
GenerateData(kind, generated, city) ==
  LET parsed == Parse(kind, generated.value, city)
  IN IF generated.raised
     THEN [raised |-> TRUE, record |-> NoRecord, path |-> "none",
           errorLines |-> generated.errorLines + 1]
     ELSE IF parsed.raised
     THEN [raised |-> TRUE, record |-> NoRecord, path |-> parsed.path,
           errorLines |-> generated.errorLines + 2]
     ELSE [raised |-> FALSE, record |-> parsed.record, path |-> parsed.path,
           errorLines |-> generated.errorLines + (IF parsed.path = "degraded" THEN 1 ELSE 0)]

\* a faulty content operation: what is raised below is passed on to the caller
GetDataRethrows(kind, generated, city) == GenerateData(kind, generated, city)

\* getWeatherData, getTripPlan, getMoneySavingTips from that outcome on:
\* what is raised below is logged and replaced by the static fallback record
GetData(kind, generated, city) ==
  LET data == GenerateData(kind, generated, city)
  IN IF data.raised
     THEN [raised |-> FALSE, record |-> Fallback(kind, city), path |-> "fallback",
           errorLines |-> data.errorLines + 1]
     ELSE [raised |-> FALSE, record |-> data.record, path |-> data.path,
           errorLines |-> data.errorLines]

(***************************************************************************)
(* The prompt builders: the day count                                      *)
(***************************************************************************)
MsPerDay == 1000 * 60 * 60 * 24

\* Math.ceil(a / b) for b > 0
CeilDiv(a, b) == 0 - ((0 - a) \div b)

\* duration in createCompleteWeatherPrompt, createTripPlanPrompt and
\* createMoneySavingTipsPrompt; start and end are Date.getTime() values
Duration(start, end) == CeilDiv(end - start, MsPerDay)

\* toLocaleDateString('en-US') of a date of August 2024, given by its getTime()
\* in ms after 2024-08-15T00:00:00.000Z, in a process whose time zone is UTC
ToLocaleDateString(time) == <<"8","/">> \o NatToString(15 + (time \div MsPerDay)) \o <<"/","2","0",
    "2","4">>

\* cities.join(', ')
RECURSIVE CitiesList(_)
CitiesList(cities) ==
  IF cities = <<>> THEN <<>>
  ELSE IF Len(cities) = 1 THEN cities[1]
  ELSE cities[1] \o <<",", " ">> \o CitiesList(Tail(cities))

\* the template of createCompleteWeatherPrompt
CreateCompleteWeatherPrompt(city, startFormatted, endFormatted, duration, trip) ==
  <<"\n">>
  \o <<"C","r","e","a","t","e"," ","r","e","a","l","i","s","t","i","c"," ","w","e","a","t",
      "h","e","r"," ","i","n","f","o","r","m","a","t","i","o","n"," ","f","o","r"," ">> \o city \o <<" ","f","o","r"," ","t","h",
      "e"," ","p","e","r","i","o","d"," ","f","r","o","m"," ">> \o startFormatted \o <<" ",
      "t","o"," ">> \o endFormatted \o <<" ",
      "(">> \o NumberToString(duration) \o <<" ",
      "d","a","y","s",")",".">> \o <<"\n">>
  \o <<"N","o","t","e"," ","t","h","a","t"," ","t","h","i","s"," ","t","r","i","p"," ","i",
      "s"," ","f","o","r"," ">> \o trip \o <<"\n">>
  \o <<"P","l","e","a","s","e"," ","p","r","o","v","i","d","e"," ","t","h","e"," ","f","o",
      "l","l","o","w","i","n","g"," ","i","n","f","o","r","m","a","t","i","o","n"," ","i",
      "n"," ","a"," ","s","t","r","u","c","t","u","r","e","d"," ","f","o","r","m","a","t",
      ":">> \o <<"\n">>
  \o <<"\n">>
  \o <<"T","E","M","P","E","R","A","T","U","R","E",":"," ","[","n","u","m","b","e","r"," ",
      "i","n"," ","c","e","l","s","i","u","s"," ","d","e","p","e","n","d","i","n","g"," ",
      "o","n"," ","s","e","a","s","o","n"," ","a","n","d"," ","l","o","c","a","t","i","o",
      "n","]">> \o <<"\n">>
  \o <<"C","O","N","D","I","T","I","O","N",":"," ","[","o","n","e"," ","w","o","r","d"," ",
      "i","n"," ","E","n","g","l","i","s","h",":"," ","s","u","n","n","y",","," ","c","l",
      "o","u","d","y",","," ","r","a","i","n","y",","," ","p","a","r","t","l","y","-","c",
      "l","o","u","d","y",","," ","s","n","o","w"," ","o","r"," ","s","t","o","r","m","y",
      "]">> \o <<"\n">>
  \o <<"E","N","G","L","I","S","H","_","C","O","N","D","I","T","I","O","N",":"," ","[","E",
      "n","g","l","i","s","h"," ","d","e","s","c","r","i","p","t","i","o","n"," ","o","f",
      " ","w","e","a","t","h","e","r"," ","c","o","n","d","i","t","i","o","n","]">> \o <<"\n">>
  \o <<"F","O","R","E","C","A","S","T","_","E","N","G","L","I","S","H",":"," ","[","f","o",
      "r","e","c","a","s","t"," ","i","n"," ","E","n","g","l","i","s","h",","," ","i","n",
      "c","l","u","d","i","n","g"," ","t","e","m","p","e","r","a","t","u","r","e"," ","r",
      "a","n","g","e"," ","a","n","d"," ","b","r","i","e","f"," ","d","e","s","c","r","i",
      "p","t","i","o","n","]">> \o <<"\n">>
  \o <<"S","U","M","M","A","R","Y","_","E","N","G","L","I","S","H",":"," ","[","d","e","t",
      "a","i","l","e","d"," ","a","n","a","l","y","s","i","s"," ","i","n"," ","E","n","g",
      "l","i","s","h"," ","o","f"," ","2","0","0","-","3","0","0"," ","w","o","r","d","s",
      " ","w","i","t","h"," ","t","e","m","p","e","r","a","t","u","r","e"," ","r","a","n",
      "g","e","s",","," ","h","u","m","i","d","i","t","y",","," ","r","a","i","n"," ","c",
      "h","a","n","c","e",","," ","s","u","n","s","h","i","n","e"," ","h","o","u","r","s",
      " ","a","n","d"," ","c","l","o","t","h","i","n","g"," ","r","e","c","o","m","m","e",
      "n","d","a","t","i","o","n","s",","," ","f","o","r"," ","e","a","c","h"," ","s","e",
      "c","t","i","o","n"," ",",","c","a","n"," ","a","d","d"," ","a","n"," ","e","m","o",
      "j","i"," ","a","t"," ","t","h","e"," ","s","t","a","r","t"," ","o","f"," ","e","a",
      "c","h"," ","s","e","c","t","i","o","n",","," ","f","o","r"," ","e","x","a","m","p",
      "l","e"," ","w","h","e","n"," ","t","a","l","k","i","n","g"," ","a","b","o","u","t",
      " ","c","l","o","t","h","i","n","g"," ","r","e","c","o","m","m","e","n","d","a","t",
      "i","o","n","s",","," ","y","o","u"," ","c","a","n"," ","a","d","d"," ","a"," ">> \o Glyph("coat") \o <<" ",
      "e","m","o","j","i","]">> \o <<"\n">>
  \o <<"\n">>
  \o <<"C","o","n","s","i","d","e","r"," ","t","h","e"," ","f","o","l","l","o","w","i","n",
      "g",":">> \o <<"\n">>
  \o <<"-"," ","T","h","e"," ","t","y","p","i","c","a","l"," ","c","l","i","m","a","t","e",
      " ","o","f"," ">> \o city \o <<"\n">>
  \o <<"-"," ","T","h","e"," ","c","u","r","r","e","n","t"," ","s","e","a","s","o","n"," ",
      "a","n","d"," ","r","e","q","u","e","s","t","e","d"," ","p","e","r","i","o","d">> \o <<"\n">>
  \o <<"-"," ","G","e","o","g","r","a","p","h","i","c"," ","l","o","c","a","t","i","o","n",
      " ","a","n","d"," ","s","e","a","s","o","n","a","l"," ","p","a","t","t","e","r","n",
      "s">> \o <<"\n">>
  \o <<"-"," ","A","p","p","r","o","p","r","i","a","t","e"," ","r","e","c","o","m","m","e",
      "n","d","a","t","i","o","n","s"," ","f","o","r"," ","t","h","e"," ","t","r","i","p",
      " ","p","e","r","i","o","d">> \o <<"\n">>
  \o <<"-"," ","R","a","i","n"," ","c","h","a","n","c","e",","," ","s","u","n","s","h","i",
      "n","e"," ","h","o","u","r","s"," ","a","n","d"," ","c","l","o","t","h","i","n","g",
      " ","r","e","c","o","m","m","e","n","d","a","t","i","o","n","s">> \o <<"\n">>
  \o <<"\n">>
  \o <<"F","o","r","m","a","t"," ","t","h","e"," ","r","e","s","p","o","n","s","e"," ","e",
      "x","a","c","t","l","y"," ","l","i","k","e"," ","t","h","i","s",":">> \o <<"\n">>
  \o <<"T","E","M","P","E","R","A","T","U","R","E",":"," ","2","5">> \o <<"\n">>
  \o <<"C","O","N","D","I","T","I","O","N",":"," ","s","u","n","n","y">> \o <<"\n">>
  \o <<"E","N","G","L","I","S","H","_","C","O","N","D","I","T","I","O","N",":"," ","B","r",
      "i","g","h","t"," ","s","u","n","s","h","i","n","e">> \o <<"\n">>
  \o <<"F","O","R","E","C","A","S","T","_","E","N","G","L","I","S","H",":"," ">> \o startFormatted \o <<" ","-"," ">> \o endFormatted \o <<":"," ","E","x",
      "p","e","c","t","e","d"," ","t","e","m","p","e","r","a","t","u","r","e"," ","2","2">> \o Glyph("en-dash") \o <<"2",
      "8">> \o Glyph("degree") \o <<"C",
      ","," ","b","r","i","g","h","t"," ","s","u","n","s","h","i","n","e"," ","m","o","s",
      "t"," ","d","a","y","s">> \o <<"\n">>
  \o <<"S","U","M","M","A","R","Y","_","E","N","G","L","I","S","H",":"," ","[","d","e","t",
      "a","i","l","e","d"," ","a","n","a","l","y","s","i","s"," ","h","e","r","e"," ","i",
      "n"," ","E","n","g","l","i","s","h",".",".",".","]">> \o <<"\n">>
  \o <<"\n">>
  \o <<"C","r","e","a","t","e"," ","a"," ","r","e","a","l","i","s","t","i","c"," ","f","o",
      "r","e","c","a","s","t"," ","f","o","r"," ">> \o city \o <<" ","d","u","r","i","n","g"," ","t",
      "h","i","s"," ","p","e","r","i","o","d",".">> \o <<"\n">>

\* the template of createTripPlanPrompt
CreateTripPlanPrompt(city, startFormatted, endFormatted, duration, trip) ==
  <<"\n">>
  \o <<"C","r","e","a","t","e"," ","a"," ","c","o","m","p","r","e","h","e","n","s","i","v",
      "e"," ","t","r","i","p"," ","p","l","a","n"," ","f","o","r"," ">> \o city \o <<" ","f","o","r"," ","a"," ">> \o NumberToString(duration) \o <<"-",
      "d","a","y"," ","t","r","i","p"," ","f","r","o","m"," ">> \o startFormatted \o <<" ",
      "t","o"," ">> \o endFormatted \o <<".">> \o <<"\n">>
  \o <<"T","h","i","s"," ","t","r","i","p"," ","i","s"," ","f","o","r",":"," ">> \o trip \o <<"\n">>
  \o <<"\n">>
  \o <<"P","l","e","a","s","e"," ","p","r","o","v","i","d","e"," ","t","h","e"," ","f","o",
      "l","l","o","w","i","n","g"," ","i","n","f","o","r","m","a","t","i","o","n"," ","i",
      "n"," ","a"," ","s","t","r","u","c","t","u","r","e","d"," ","f","o","r","m","a","t",
      ":">> \o <<"\n">>
  \o <<"\n">>
  \o <<"T","I","T","L","E",":"," ","[","c","a","t","c","h","y"," ","t","i","t","l","e"," ",
      "f","o","r"," ","t","h","e"," ","t","r","i","p"," ","p","l","a","n",","," ","3","-",
      "5"," ","w","o","r","d","s","]">> \o <<"\n">>
  \o <<"D","E","S","C","R","I","P","T","I","O","N",":"," ","[","b","r","i","e","f"," ","d",
      "e","s","c","r","i","p","t","i","o","n"," ","o","f"," ","w","h","a","t"," ","t","o",
      " ","e","x","p","e","c","t"," ","i","n"," ">> \o city \o <<","," ","1"," ",
      "s","e","n","t","e","n","c","e","]">> \o <<"\n">>
  \o <<"A","C","T","I","V","I","T","I","E","S",":"," ","[","d","e","t","a","i","l","e","d",
      " ","l","i","s","t"," ","o","f"," ","a","c","t","i","v","i","t","i","e","s"," ","a",
      "n","d"," ","a","t","t","r","a","c","t","i","o","n","s"," ","t","o"," ","v","i","s",
      "i","t"," ","i","n"," ">> \o city \o <<",",
      " ","f","o","r","m","a","t","t","e","d"," ","a","s"," ","a"," ","s","i","n","g","l",
      "e"," ","p","a","r","a","g","r","a","p","h"," ","w","i","t","h"," ","b","u","l","l",
      "e","t"," ","p","o","i","n","t","s"," ","o","r"," ","n","u","m","b","e","r","e","d",
      " ","l","i","s","t","]">> \o <<"\n">>
  \o <<"S","U","M","M","A","R","Y",":"," ","[","d","e","t","a","i","l","e","d"," ","t","r",
      "a","v","e","l"," ","g","u","i","d","e"," ","i","n"," ","E","n","g","l","i","s","h",
      " ","o","f"," ","2","0","0","-","3","0","0"," ","w","o","r","d","s"," ","w","i","t",
      "h"," ","d","a","y","-","b","y","-","d","a","y"," ","r","e","c","o","m","m","e","n",
      "d","a","t","i","o","n","s",","," ","b","e","s","t"," ","t","i","m","e","s"," ","t",
      "o"," ","v","i","s","i","t"," ","a","t","t","r","a","c","t","i","o","n","s",","," ",
      "l","o","c","a","l"," ","c","u","s","t","o","m","s",","," ","a","n","d"," ","p","r",
      "a","c","t","i","c","a","l"," ","a","d","v","i","c","e","."," ","A","d","d"," ","r",
      "e","l","e","v","a","n","t"," ","e","m","o","j","i","s"," ","a","t"," ","t","h","e",
      " ","s","t","a","r","t"," ","o","f"," ","e","a","c","h"," ","s","e","c","t","i","o",
      "n",","," ","f","o","r"," ","e","x","a","m","p","l","e"," ","w","h","e","n"," ","t",
      "a","l","k","i","n","g"," ","a","b","o","u","t"," ","f","o","o","d",","," ","y","o",
      "u"," ","c","a","n"," ","a","d","d"," ","a"," ">> \o Glyph("plate") \o <<" ",
      "e","m","o","j","i","]">> \o <<"\n">>
  \o <<"\n">>
  \o <<"C","o","n","s","i","d","e","r"," ","t","h","e"," ","f","o","l","l","o","w","i","n",
      "g",":">> \o <<"\n">>
  \o <<"-"," ","T","h","e"," ","t","y","p","e"," ","o","f"," ","t","r","i","p"," ","(">> \o trip \o <<")">> \o <<"\n">>
  \o <<"-"," ","T","h","e"," ","d","u","r","a","t","i","o","n"," ","o","f"," ","s","t","a",
      "y"," ","(">> \o NumberToString(duration) \o <<" ","d","a","y","s",")">> \o <<"\n">>
  \o <<"-"," ","L","o","c","a","l"," ","c","u","l","t","u","r","e"," ","a","n","d"," ","c",
      "u","s","t","o","m","s">> \o <<"\n">>
  \o <<"-"," ","S","e","a","s","o","n","a","l"," ","c","o","n","s","i","d","e","r","a","t",
      "i","o","n","s">> \o <<"\n">>
  \o <<"-"," ","P","o","p","u","l","a","r"," ","t","o","u","r","i","s","t"," ","s","p","o",
      "t","s"," ","a","n","d"," ","h","i","d","d","e","n"," ","g","e","m","s">> \o <<"\n">>
  \o <<"-"," ","P","r","a","c","t","i","c","a","l"," ","t","r","a","v","e","l"," ","i","n",
      "f","o","r","m","a","t","i","o","n">> \o <<"\n">>
  \o <<"\n">>
  \o <<"F","o","r","m","a","t"," ","t","h","e"," ","r","e","s","p","o","n","s","e"," ","e",
      "x","a","c","t","l","y"," ","l","i","k","e"," ","t","h","i","s",":">> \o <<"\n">>
  \o <<"T","I","T","L","E",":"," ","A","m","a","z","i","n","g"," ">> \o NumberToString(duration) \o <<"-","D","a","y"," ","A","d","v","e",
      "n","t","u","r","e"," ","i","n"," ">> \o city \o <<"\n">>
  \o <<"D","E","S","C","R","I","P","T","I","O","N",":"," ","D","i","s","c","o","v","e","r",
      " ","t","h","e"," ","b","e","s","t"," ","o","f"," ">> \o city \o <<" ","w","i","t","h"," ","o","u","r",
      " ","c","u","r","a","t","e","d"," ">> \o NumberToString(duration) \o <<"-",
      "d","a","y"," ","i","t","i","n","e","r","a","r","y"," ","f","e","a","t","u","r","i",
      "n","g"," ","m","u","s","t","-","s","e","e"," ","a","t","t","r","a","c","t","i","o",
      "n","s"," ","a","n","d"," ","l","o","c","a","l"," ","e","x","p","e","r","i","e","n",
      "c","e","s",".">> \o <<"\n">>
  \o <<"A","C","T","I","V","I","T","I","E","S",":"," ","[","d","e","t","a","i","l","e","d",
      " ","a","c","t","i","v","i","t","i","e","s"," ","l","i","s","t"," ","h","e","r","e",
      ".",".",".","]">> \o <<"\n">>
  \o <<"S","U","M","M","A","R","Y",":"," ","[","d","e","t","a","i","l","e","d"," ","t","r",
      "a","v","e","l"," ","g","u","i","d","e"," ","h","e","r","e"," ","i","n"," ","E","n",
      "g","l","i","s","h",".",".",".","]">> \o <<"\n">>
  \o <<"\n">>
  \o <<"C","r","e","a","t","e"," ","a"," ","p","r","a","c","t","i","c","a","l"," ","a","n",
      "d"," ","e","n","j","o","y","a","b","l","e"," ","t","r","i","p"," ","p","l","a","n",
      " ","f","o","r"," ">> \o city \o <<" ","d","u","r","i","n",
      "g"," ","t","h","i","s"," ">> \o NumberToString(duration) \o <<"-",
      "d","a","y"," ","t","r","i","p",".">> \o <<"\n">>

\* the template of createMoneySavingTipsPrompt
CreateMoneySavingTipsPrompt(citiesList, startFormatted, endFormatted, duration, tripName) ==
  <<"\n">>
  \o <<"Y","o","u"," ","a","r","e"," ","a"," ","t","r","a","v","e","l"," ","e","x","p","e",
      "r","t"," ","s","p","e","c","i","a","l","i","z","i","n","g"," ","i","n"," ","b","u",
      "d","g","e","t"," ","t","r","a","v","e","l"," ","a","n","d"," ","m","o","n","e","y",
      "-","s","a","v","i","n","g"," ","t","i","p","s","."," ">> \o <<"\n">>
  \o <<"\n">>
  \o <<"C","r","e","a","t","e"," ","s","p","e","c","i","f","i","c"," ","m","o","n","e","y",
      "-","s","a","v","i","n","g"," ","a","d","v","i","c","e"," ","f","o","r"," ","a"," ",
      "t","r","i","p"," ","w","i","t","h"," ","t","h","e"," ","f","o","l","l","o","w","i",
      "n","g"," ","d","e","t","a","i","l","s",":">> \o <<"\n">>
  \o <<"-"," ","T","r","i","p"," ","N","a","m","e",":"," ">> \o tripName \o <<"\n">>
  \o <<"-"," ","C","i","t","i","e","s"," ","t","o"," ","v","i","s","i","t",":"," ">> \o citiesList \o <<"\n">>
  \o <<"-"," ","T","r","a","v","e","l"," ","d","a","t","e","s",":"," ">> \o startFormatted \o <<" ","t","o"," ">> \o endFormatted \o <<" ","(">> \o NumberToString(duration) \o <<" ",
      "d","a","y","s",")">> \o <<"\n">>
  \o <<"\n">>
  \o <<"P","r","o","v","i","d","e"," ","p","r","a","c","t","i","c","a","l",","," ","s","p",
      "e","c","i","f","i","c"," ","m","o","n","e","y","-","s","a","v","i","n","g"," ","t",
      "i","p","s"," ","t","h","a","t"," ","a","r","e"," ","t","a","i","l","o","r","e","d",
      " ","t","o"," ","t","h","e","s","e"," ","c","i","t","i","e","s"," ","a","n","d"," ",
      "t","h","i","s"," ","t","y","p","e"," ","o","f"," ","t","r","i","p","."," ","I","n",
      "c","l","u","d","e"," ","a","d","v","i","c","e"," ","a","b","o","u","t",":">> \o <<"\n">>
  \o <<"-"," ","T","r","a","n","s","p","o","r","t","a","t","i","o","n"," ","o","p","t","i",
      "o","n","s"," ","(","U","b","e","r",","," ","p","u","b","l","i","c"," ","t","r","a",
      "n","s","p","o","r","t",","," ","w","a","l","k","i","n","g",")">> \o <<"\n">>
  \o <<"-"," ","A","t","t","r","a","c","t","i","o","n"," ","t","i","c","k","e","t","s"," ",
      "(","b","u","y","i","n","g"," ","i","n"," ","a","d","v","a","n","c","e",","," ","c",
      "o","m","b","o"," ","d","e","a","l","s",","," ","f","r","e","e"," ","d","a","y","s",
      ")">> \o <<"\n">>
  \o <<"-"," ","A","c","c","o","m","m","o","d","a","t","i","o","n"," ","s","a","v","i","n",
      "g","s">> \o <<"\n">>
  \o <<"-"," ","F","o","o","d"," ","a","n","d"," ","d","i","n","i","n","g"," ","t","i","p","s">> \o <<"\n">>
  \o <<"-"," ","L","o","c","a","l"," ","t","r","a","n","s","p","o","r","t","a","t","i","o",
      "n"," ","b","e","t","w","e","e","n"," ","c","i","t","i","e","s">> \o <<"\n">>
  \o <<"-"," ","S","e","a","s","o","n","a","l"," ","c","o","n","s","i","d","e","r","a","t",
      "i","o","n","s"," ","f","o","r"," ","t","h","e","s","e"," ","d","a","t","e","s">> \o <<"\n">>
  \o <<"-"," ","S","p","e","c","i","f","i","c"," ","d","e","a","l","s"," ","o","r"," ","p",
      "a","s","s","e","s"," ","a","v","a","i","l","a","b","l","e"," ","i","n"," ","t","h",
      "e","s","e"," ","c","i","t","i","e","s">> \o <<"\n">>
  \o <<"\n">>
  \o <<"F","o","r","m","a","t"," ","y","o","u","r"," ","r","e","s","p","o","n","s","e"," ",
      "e","x","a","c","t","l","y"," ","l","i","k","e"," ","t","h","i","s",":">> \o <<"\n">>
  \o <<"T","I","P",":"," ","[","Y","o","u","r"," ","c","o","m","p","r","e","h","e","n","s",
      "i","v","e"," ","m","o","n","e","y","-","s","a","v","i","n","g"," ","a","d","v","i",
      "c","e"," ","h","e","r","e",","," ","<","1","0"," ","w","o","r","d","s","]">> \o <<"\n">>
  \o <<"\n">>
  \o <<"M","a","k","e"," ","t","h","e"," ","t","i","p","s"," ","s","p","e","c","i","f","i",
      "c"," ","t","o"," ","t","h","e"," ","c","i","t","i","e","s"," ","m","e","n","t","i",
      "o","n","e","d"," ","a","n","d"," ","t","h","e"," ","t","r","i","p"," ","t","y","p",
      "e","."," ","B","e"," ","p","r","a","c","t","i","c","a","l"," ","a","n","d"," ","a",
      "c","t","i","o","n","a","b","l","e",".">> \o <<"\n">>

(***************************************************************************)
(* Inputs: requests, dates and what the inference server answers           *)
(***************************************************************************)
Kinds == {"weather", "trip", "tips"}

Paris == <<"P","a","r","i","s">>
Rome == <<"R","o","m","e">>
Cities == {Paris, Rome}
\* the trip the request is for
Trips == {<<"h","o","n","e","y","m","o","o","n">>}
CityLists == {<<Paris>>, <<Paris, Rome>>}

\* getTime() of the dates, in ms after 2024-08-15T00:00:00.000Z, half a day apart
Times == {h * (MsPerDay \div 2) : h \in 0..MaxHalfDays}

\* n characters of running text
Filler(n) == [i \in 1..n |-> "x"]

JoinLines(lines) == Join(lines, "\n")

\* every text of 1..MaxLines lines taken from pool
FreeReplies(pool) ==
  {JoinLines(ls) : ls \in UNION {[1..n -> pool] : n \in 1..MaxLines}}

\* lines a weather reply may be made of
WeatherLines ==
  {<<"T","E","M","P","E","R","A","T","U","R","E",":"," ","0">>,
   <<"T","E","M","P","E","R","A","T","U","R","E",":"," ","-","5"," ","C">>,
   <<"T","E","M","P","E","R","A","T","U","R","E",":"," ","w","a","r","m">>,
   <<"C","O","N","D","I","T","I","O","N",":"," ","c","o","n","s","t","r","u","c","t","o","r">>,
   <<"E","N","G","L","I","S","H","_","C","O","N","D","I","T","I","O","N",":">>,
   <<"S","U","M","M","A","R","Y","_","E","N","G","L","I","S","H",":"," ">> \o Filler(OverflowThreshold - 1),
   <<" "," ","S","U","M","M","A","R","Y","_","E","N","G","L","I","S","H",":"," ","b","r","i",
       "e","f"," "," ">>,
   <<"S","e","e"," ","S","U","M","M","A","R","Y","_","E","N","G","L","I","S","H",":"," ","b",
       "e","l","o","w">>,
   <<"S","u","n","n","y"," ","a","n","d"," ","m","i","l","d">>,
   <<>>}

\* replies in the format the weather prompt asks for, each label once and in
\* order, with or without a closing line
WeatherFormatReplies ==
  {JoinLines(<<t, c, e, <<"F","O","R","E","C","A","S","T","_","E","N","G","L","I","S","H",":",
      " ","8",":","0","0"," ","r","a","i","n",","," ","1","4",":","0","0"," ","s","u","n">>, s>> \o closing) :
     t \in {<<"T","E","M","P","E","R","A","T","U","R","E",":"," ","1","9">>, <<"T","E","M","P","E","R","A","T","U","R","E",":"," ","0">>},
     c \in {<<"C","O","N","D","I","T","I","O","N",":"," ","r","a","i","n","y">>, <<"C","O","N","D","I","T","I","O","N",":"," ","H","a","i",
         "l">>},
     e \in {<<"E","N","G","L","I","S","H","_","C","O","N","D","I","T","I","O","N",":"," ","L",
         "i","g","h","t"," ","r","a","i","n">>, <<"E","N","G","L","I","S","H","_","C","O","N",
         "D","I","T","I","O","N",":"," ","R","a","i","n",":"," ","h","e","a","v","y">>},
     s \in {<<"S","U","M","M","A","R","Y","_","E","N","G","L","I","S","H",":"," ","M","i","l",
         "d",":"," ","p","a","c","k"," ","a"," ","c","o","a","t">>,
            <<"S","U","M","M","A","R","Y","_","E","N","G","L","I","S","H",":"," ">> \o Filler(OverflowThreshold)},
     closing \in {<<>>, <<<<"E","n","j","o","y"," ","y","o","u","r"," ","t","r","i","p","!">>>>}}

\* lines a trip plan reply may be made of
TripPlanLines ==
  {<<"T","I","T","L","E",":"," ","R","o","m","e",":"," ","3"," ","d","a","y","s">>,
   <<"D","E","S","C","R","I","P","T","I","O","N",":">>,
   <<"A","C","T","I","V","I","T","I","E","S",":"," ","W","a","l","k">>,
   <<"S","U","M","M","A","R","Y",":"," ">> \o Filler(OverflowThreshold - 1),
   <<" "," ","S","U","M","M","A","R","Y",":"," ","b","r","i","e","f"," "," ">>,
   <<"S","e","e"," ","S","U","M","M","A","R","Y",":"," ","b","e","l","o","w">>,
   <<>>}

\* replies in the format the trip plan prompt asks for
TripPlanFormatReplies ==
  {JoinLines(<<t, <<"D","E","S","C","R","I","P","T","I","O","N",":"," ","F","o","o","d"," ",
      "a","n","d"," ","a","r","t">>, <<"A","C","T","I","V","I","T","I","E","S",
      ":"," ","1",":"," ","w","a","l","k"," ","2",":"," ","e","a","t">>, s>>
             \o closing) :
     t \in {<<"T","I","T","L","E",":"," ","C","i","t","y"," ","b","r","e","a","k">>, <<"T","I","T","L","E",":"," ","R","o","m","e",":"," ","3",
         " ","d","a","y","s">>},
     s \in {<<"S","U","M","M","A","R","Y",":"," ","D","a","y"," ","1",":"," ","w","a","l","k">>, <<"S","U","M","M","A","R","Y",":"," ">> \o Filler(OverflowThreshold)},
     closing \in {<<>>, <<<<"E","n","j","o","y"," ","y","o","u","r"," ","t","r","i","p","!">>>>}}

\* lines a money-saving tip reply may be made of
TipLines ==
  {<<"T","I","P",":"," ","W","a","l","k">>,
   <<"T","I","P",":"," ","B","u","y",":"," ","e","a","r","l","y">>,
   <<"T","I","P",":"," ">> \o Filler(OverflowThreshold - 1),
   <<" ","T","I","P",":">>,
   <<"H","e","r","e"," ","i","s"," ","a"," ","T","I","P",":"," ","b","e","l","o","w">>,
   <<"E","n","j","o","y"," ","y","o","u","r"," ","t","r","i","p","!">>,
   <<>>}

\* replies in the format the money-saving tip prompt asks for, alone, with a
\* closing line or with a second tip
TipFormatReplies ==
  {JoinLines(<<t>> \o closing) :
     t \in {<<"T","I","P",":"," ","W","a","l","k",","," ","b","o","o","k"," ","e","a","r","l",
         "y">>, <<"T","I","P",":"," ">> \o Filler(OverflowThreshold)},
     closing \in {<<>>, <<<<"E","n","j","o","y"," ","y","o","u","r"," ","t","r","i","p","!">>>>,
                  <<<<"T","I","P",":"," ","W","a","l","k">>>>}}

FreeLines(kind) ==
  CASE kind = "weather" -> WeatherLines
    [] kind = "trip" -> TripPlanLines
    [] kind = "tips" -> TipLines

FormatReplies(kind) ==
  CASE kind = "weather" -> WeatherFormatReplies
    [] kind = "trip" -> TripPlanFormatReplies
    [] kind = "tips" -> TipFormatReplies

Replies(kind) == FreeReplies(FreeLines(kind)) \cup FormatReplies(kind)

\* the "response" field of the body: a reply as it is, a reply in the format
\* asked for with white space around it, a number, or no such field
ResponseValues(kind) ==
  Replies(kind)
    \cup {<<" ", "\n">> \o r \o <<"\n", " ">> : r \in FormatReplies(kind)}
    \cup {Undefined, NumberValue}

\* how POST /api/generate can settle
GenerateSettlements(kind) ==
  {Fulfilled(r) : r \in ResponseValues(kind)} \cup {Rejected(e) : e \in AxiosErrors}

(***************************************************************************)
(* OllamaService: connection check, model check, model download            *)
(***************************************************************************)
DefaultModel == <<"l","l","a","m","a","3",".","2",":","3","b">>
DefaultUrl == <<"h","t","t","p",":","/","/","l","o","c","a","l","h","o","s","t",":","1","1",
    "4","3","4">>

\* the ollamaModel option the service may be constructed with
ConfiguredModels == {DefaultModel, <<"l","l","a","m","a","3",".","2">>, <<"m","i","s","t","r","a","l",":","7","b">>}

\* names GET /api/tags may report; an entry may also lack its name
InstalledNames ==
  {DefaultModel, <<"l","l","a","m","a","3",".","2",":","1","b">>, <<"l","l","a","m","a","3",".","2","-","e","x","t","r","a",
      ":","1","b">>, <<"l","l","a","m","a","3",":","8","b">>, <<"m","i","s","t","r",
      "a","l",":","7","b">>,
   Undefined}

\* the "models" field of the body: up to MaxModels entries, given by their names
Listings == UNION {[1..n -> InstalledNames] : n \in 0..MaxModels}

\* a stricter test: the parts before the first ':' must be equal
MatchesModelByBaseName(name, ollamaModel) ==
  \/ name = ollamaModel
  \/ Split(name, ":")[1] = Split(ollamaModel, ":")[1]

\* the test ensureModelExists applies to one entry of the listing
MatchesModel(name, ollamaModel) ==
  \/ name = ollamaModel
  \/ StartsWith(name, Split(ollamaModel, ":")[1])

\* models.some(...) in ensureModelExists: the entries in order, up to the first
\* that matches; an entry without a name that is reached raises a TypeError
RECURSIVE HasModel(_, _)
HasModel(models, ollamaModel) ==
  IF models = <<>> THEN "false"
  ELSE IF Head(models) = Undefined THEN "raised"
  ELSE IF MatchesModel(Head(models), ollamaModel) THEN "true"
  ELSE HasModel(Tail(models), ollamaModel)

\* how a request of the client can settle: fulfilled with a body, or rejected
\* (server not listening, timeout, HTTP error status)
VersionSettlements == {"version", "null-body", "rejected"}
TagsSettlements ==
  {[ok |-> TRUE, models |-> m] : m \in Listings \cup {Undefined}}
    \cup {[ok |-> FALSE, models |-> Undefined]}
PullSettlements == {"fulfilled", "rejected"}

\* the operations of the client that re-check the server, and what each returns
NoCheck ==
  [entry |-> "none", pc |-> "idle", probe |-> "none", listing |-> "none",
   models |-> <<>>, hasModel |-> "none", pull |-> "none", pullName |-> <<>>,
   newModel |-> <<>>,
   returned |-> "none", raised |-> FALSE, errorLines |-> 0]

\* what an operation returns to its caller once ensureModelExists has returned
ReturnFrom(c) ==
  [c EXCEPT !.pc = "done",
            !.returned = IF c.entry = "checkOllamaConnection" THEN "true" ELSE "void"]

\* pullModel up to its await: POST /api/pull with the configured model
PullModelCall(c, ollamaModel) ==
  [c EXCEPT !.pc = "pull", !.pull = "pending", !.pullName = ollamaModel]

\* pullModel from its settled request on; the callers that awaited it return
PullModelSettled(c, s) ==
  IF s = "fulfilled"
  THEN ReturnFrom([c EXCEPT !.pull = "ok"])
  ELSE ReturnFrom([c EXCEPT !.pull = "failed", !.errorLines = @ + 2])

\* ensureModelExists up to its await: GET /api/tags
EnsureModelExistsCall(c) == [c EXCEPT !.pc = "tags"]

\* a faulty model check: a listing that failed counts as an empty listing
EnsureModelExistsPullsAfterFailure(c, s, ollamaModel) ==
  LET models == IF ~s.ok \/ s.models = Undefined THEN <<>> ELSE s.models
      hasModel == HasModel(models, ollamaModel)
  IN IF hasModel = "raised"
     THEN ReturnFrom([c EXCEPT !.listing = "ok", !.models = models,
                               !.hasModel = hasModel, !.errorLines = @ + 1])
     ELSE IF hasModel = "false"
     THEN PullModelCall([c EXCEPT !.listing = IF s.ok THEN "ok" ELSE "failed",
                                  !.models = models, !.hasModel = hasModel], ollamaModel)
     ELSE ReturnFrom([c EXCEPT !.listing = "ok", !.models = models,
                               !.hasModel = hasModel])

\* ensureModelExists from its settled request on
EnsureModelExistsSettled(c, s, ollamaModel) ==
  LET models == IF s.models = Undefined THEN <<>> ELSE s.models
      hasModel == HasModel(models, ollamaModel)
  IN IF ~s.ok
     THEN ReturnFrom([c EXCEPT !.listing = "failed", !.errorLines = @ + 1])
     ELSE IF hasModel = "raised"
     THEN ReturnFrom([c EXCEPT !.listing = "ok", !.models = models,
                               !.hasModel = hasModel, !.errorLines = @ + 1])
     ELSE IF hasModel = "false"
     THEN PullModelCall([c EXCEPT !.listing = "ok", !.models = models,
                                  !.hasModel = hasModel], ollamaModel)
     ELSE ReturnFrom([c EXCEPT !.listing = "ok", !.models = models,
                               !.hasModel = hasModel])

\* a faulty connection check: ensureModelExists is started but not awaited
CheckOllamaConnectionNotAwaiting(c, s) ==
  IF s = "version"
  THEN [c EXCEPT !.pc = "done", !.probe = "ok", !.returned = "true"]
  ELSE [c EXCEPT !.pc = "done",
                 !.probe = IF s = "rejected" THEN "failed" ELSE "ok",
                 !.returned = "false",
                 !.errorLines = @ + 3]

\* checkOllamaConnection from its settled GET /api/version on, up to the await
\* of ensureModelExists; reading the version of a null body raises
CheckOllamaConnectionSettled(c, s) ==
  IF s = "version"
  THEN EnsureModelExistsCall([c EXCEPT !.probe = "ok"])
  ELSE [c EXCEPT !.pc = "done",
                 !.probe = IF s = "rejected" THEN "failed" ELSE "ok",
                 !.returned = "false",
                 !.errorLines = @ + 3]

\* the model names switchModel may be called with
SwitchNames == ConfiguredModels

\* listModels from its settled GET /api/tags on: the "models" field of the body,
\* [] when the body has none, and [] after a failure, which is logged
ListModels(s) ==
  IF ~s.ok THEN [models |-> <<>>, errorLines |-> 1]
  ELSE IF s.models = Undefined THEN [models |-> <<>>, errorLines |-> 0]
  ELSE [models |-> s.models, errorLines |-> 0]

\* a faulty test: the loose test of ensureModelExists is applied
ModelExistsByPrefix(models, newModel) ==
  \E i \in 1..Len(models) : models[i] # Undefined /\ MatchesModel(models[i], newModel)

\* models.some(model => model.name === newModel); an entry without a name
\* equals no model name
ModelExists(models, newModel) ==
  \E i \in 1..Len(models) : models[i] = newModel

\* switchModel from the settled listing on: what it returns, the configured
\* model it leaves behind and the error lines it and listModels log
SwitchModelSettled(s, newModel, configured) ==
  LET listed == ListModels(s)
  IN IF ModelExists(listed.models, newModel)
     THEN [returned |-> "true", ollamaModel |-> newModel, errorLines |-> listed.errorLines]
     ELSE [returned |-> "false", ollamaModel |-> configured,
           errorLines |-> listed.errorLines + 1]

\* the body of POST /api/generate, built when generateResponse is called
GenerateRequest(configured) == [model |-> configured, stream |-> FALSE]

\* a faulty client: the model name is read when the request settles
ModelSentWhenSettled(request, configured) == configured

\* the model name the server got with the request
ModelSent(request, configured) == request.model

\* a call of generateResponse or switchModel: the model configured when it
\* started, its request or its argument, and what came of it
GenerateResponseCall(configured) ==
  [op |-> "generateResponse", pc |-> "awaiting", configured |-> configured,
   request |-> GenerateRequest(configured), newModel |-> <<>>, sent |-> <<>>,
   returned |-> "none"]
SwitchModelCall(configured, newModel) ==
  [op |-> "switchModel", pc |-> "awaiting", configured |-> configured,
   request |-> GenerateRequest(<<>>), newModel |-> newModel, sent |-> <<>>,
   returned |-> "none"]

\* the listings GET /api/tags answers a switch with while other calls are in
\* flight: at most one entry
ShortListings ==
  {s \in TagsSettlements : ~s.ok \/ s.models = Undefined \/ Len(s.models) <= 1}

(***************************************************************************)
(* State                                                                   *)
(***************************************************************************)
VARIABLES
  pc,        \* where the content request is: "idle", "awaiting", "done"
  req,       \* the arguments of the content operation that was called
  prompt,    \* what the prompt builder computed for the request in flight
  settled,   \* how POST /api/generate settled
  gen,       \* what generateResponse returned or raised
  result,    \* what the content operation returned or raised
  ollamaModel,  \* OllamaService.ollamaModel
  ollamaUrl,    \* OllamaService.ollamaUrl
  check,     \* the connection check, model check, download or switch in progress
  calls,     \* the generateResponse and switchModel calls made side by side
  completed  \* the places in calls of the calls that have returned, in that order

pipelineVars == <<pc, req, prompt, settled, gen, result>>
configVars == <<ollamaModel, ollamaUrl>>
concurrentVars == <<calls, completed>>
clientVars == <<configVars, check, concurrentVars>>
vars == <<pipelineVars, clientVars>>

NoRequest == [kind |-> "none", city |-> <<>>, cities |-> <<>>, trip |-> <<>>]
NoPrompt == [start |-> -1, end |-> -1, duration |-> -1, text |-> <<>>]
NoSettled == [ok |-> FALSE, response |-> Undefined, error |-> NoError]
NoGen == [raised |-> FALSE, value |-> Undefined, error |-> NoError, errorLines |-> 0]
NoResult == [raised |-> FALSE, record |-> NoRecord, path |-> "none", errorLines |-> 0]

PipelineInit ==
  /\ pc = "idle"
  /\ req = NoRequest
  /\ prompt = NoPrompt
  /\ settled = NoSettled
  /\ gen = NoGen
  /\ result = NoResult

\* the prompt builder of each kind: the dates, the day count it computes and
\* the text it renders
BuildPrompt(kind, city, cities, start, end, trip) ==
  LET duration == Duration(start, end)
      startFormatted == ToLocaleDateString(start)
      endFormatted == ToLocaleDateString(end)
  IN [start |-> start, end |-> end, duration |-> duration,
      text |->
        CASE kind = "weather" ->
               CreateCompleteWeatherPrompt(city, startFormatted, endFormatted, duration, trip)
          [] kind = "trip" ->
               CreateTripPlanPrompt(city, startFormatted, endFormatted, duration, trip)
          [] kind = "tips" ->
               CreateMoneySavingTipsPrompt(CitiesList(cities), startFormatted, endFormatted,
                                           duration, trip)]

\* the operation runs up to its await: the prompt is built and sent
CallOperation(kind, city, cities, start, end, trip) ==
  /\ pc = "idle"
  /\ pc' = "awaiting"
  /\ req' = [kind |-> kind, city |-> city, cities |-> cities, trip |-> trip]
  /\ prompt' = BuildPrompt(kind, city, cities, start, end, trip)
  /\ UNCHANGED <<settled, gen, result>>
  /\ UNCHANGED clientVars

\* getWeatherData(city, startDate, endDate, trip); the controller lets pass
\* a non-empty city and valid dates with start <= end
GetWeatherData ==
  \E city \in Cities, start \in Times, end \in Times, trip \in Trips :
    /\ start <= end
    /\ CallOperation("weather", city, <<>>, start, end, trip)

\* getTripPlan(city, startDate, endDate, trip)
GetTripPlan ==
  \E city \in Cities, start \in Times, end \in Times, trip \in Trips :
    /\ start <= end
    /\ CallOperation("trip", city, <<>>, start, end, trip)

\* getMoneySavingTips(cities, startDate, endDate, tripName)
GetMoneySavingTips ==
  \E cities \in CityLists, start \in Times, end \in Times, tripName \in Trips :
    /\ start <= end
    /\ CallOperation("tips", <<>>, cities, start, end, tripName)

\* the request settles and the operation runs to its end
RequestSettles ==
  /\ pc = "awaiting"
  /\ \E s \in GenerateSettlements(req.kind) :
       /\ settled' = s
       /\ gen' = GenerateResponse(s)
       /\ result' = GetData(req.kind, gen', req.city)
  /\ pc' = "done"
  /\ prompt' = NoPrompt
  /\ UNCHANGED req
  /\ UNCHANGED clientVars

\* the caller has the record; the service is ready for the next request
Return ==
  /\ pc = "done"
  /\ pc' = "idle"
  /\ req' = NoRequest
  /\ settled' = NoSettled
  /\ gen' = NoGen
  /\ result' = NoResult
  /\ UNCHANGED prompt
  /\ UNCHANGED clientVars

\* new OllamaService(options)
ClientInit(models) ==
  /\ ollamaModel \in models
  /\ ollamaUrl = DefaultUrl
  /\ check = NoCheck
  /\ calls = <<>>
  /\ completed = <<>>

\* the client calls one of its operations; each runs up to its first await
CheckOllamaConnection ==
  /\ check.pc = "idle"
  /\ check' = [NoCheck EXCEPT !.entry = "checkOllamaConnection", !.pc = "version"]
  /\ UNCHANGED <<configVars, concurrentVars, pipelineVars>>

EnsureModelExists ==
  /\ check.pc = "idle"
  /\ check' = EnsureModelExistsCall([NoCheck EXCEPT !.entry = "ensureModelExists"])
  /\ UNCHANGED <<configVars, concurrentVars, pipelineVars>>

PullModel ==
  /\ check.pc = "idle"
  /\ check' = PullModelCall([NoCheck EXCEPT !.entry = "pullModel"], ollamaModel)
  /\ UNCHANGED <<configVars, concurrentVars, pipelineVars>>

\* GET /api/version settles
VersionSettles ==
  /\ check.pc = "version"
  /\ \E s \in VersionSettlements : check' = CheckOllamaConnectionSettled(check, s)
  /\ UNCHANGED <<configVars, concurrentVars, pipelineVars>>

\* GET /api/tags settles
TagsSettles ==
  /\ check.pc = "tags"
  /\ \E s \in TagsSettlements : check' = EnsureModelExistsSettled(check, s, ollamaModel)
  /\ UNCHANGED <<configVars, concurrentVars, pipelineVars>>

\* POST /api/pull settles
PullSettles ==
  /\ check.pc = "pull"
  /\ \E s \in PullSettlements : check' = PullModelSettled(check, s)
  /\ UNCHANGED <<configVars, concurrentVars, pipelineVars>>

\* the caller has the result; the client is ready for the next call
CheckReturn ==
  /\ check.pc = "done"
  /\ check' = NoCheck
  /\ UNCHANGED <<configVars, concurrentVars, pipelineVars>>

\* switchModel(newModel) up to its await of listModels
SwitchModel ==
  /\ check.pc = "idle"
  /\ \E newModel \in SwitchNames :
       check' = [NoCheck EXCEPT !.entry = "switchModel", !.pc = "list",
                                !.newModel = newModel]
  /\ UNCHANGED <<configVars, concurrentVars, pipelineVars>>

\* GET /api/tags of listModels settles and switchModel runs to its end
ListSettles ==
  /\ check.pc = "list"
  /\ \E s \in TagsSettlements :
       LET out == SwitchModelSettled(s, check.newModel, ollamaModel)
       IN /\ check' = [check EXCEPT !.pc = "done",
                                    !.listing = IF s.ok THEN "ok" ELSE "failed",
                                    !.models = ListModels(s).models,
                                    !.returned = out.returned,
                                    !.errorLines = @ + out.errorLines]
          /\ ollamaModel' = out.ollamaModel
  /\ UNCHANGED <<ollamaUrl, concurrentVars, pipelineVars>>

\* generateResponse(prompt) is called while other calls are in flight
StartGenerateResponse ==
  /\ Len(calls) < MaxCalls
  /\ calls' = Append(calls, GenerateResponseCall(ollamaModel))
  /\ UNCHANGED <<configVars, check, completed, pipelineVars>>

\* switchModel(newModel) is called while other calls are in flight
StartSwitchModel ==
  /\ Len(calls) < MaxCalls
  /\ \E newModel \in SwitchNames :
       calls' = Append(calls, SwitchModelCall(ollamaModel, newModel))
  /\ UNCHANGED <<configVars, check, completed, pipelineVars>>

\* POST /api/generate of one of the calls settles: text is returned, or an
\* error is raised
GenerateSettles ==
  /\ \E i \in 1..Len(calls) :
       /\ calls[i].op = "generateResponse"
       /\ calls[i].pc = "awaiting"
       /\ \E outcome \in {"text", "raised"} :
            calls' = [calls EXCEPT ![i].pc = "done",
                                   ![i].sent = ModelSent(calls[i].request, ollamaModel),
                                   ![i].returned = outcome]
       /\ completed' = Append(completed, i)
  /\ UNCHANGED <<configVars, check, pipelineVars>>

\* GET /api/tags of one of the switches settles and that switch runs to its end
ListModelsSettles ==
  /\ \E i \in 1..Len(calls) :
       /\ calls[i].op = "switchModel"
       /\ calls[i].pc = "awaiting"
       /\ \E s \in ShortListings :
            LET out == SwitchModelSettled(s, calls[i].newModel, ollamaModel)
            IN /\ calls' = [calls EXCEPT ![i].pc = "done", ![i].returned = out.returned]
               /\ ollamaModel' = out.ollamaModel
       /\ completed' = Append(completed, i)
  /\ UNCHANGED <<ollamaUrl, check, pipelineVars>>

\* the content services, on a client constructed as app.module.ts does
Init == PipelineInit /\ ClientInit({DefaultModel})

Next ==
  \/ GetWeatherData
  \/ GetTripPlan
  \/ GetMoneySavingTips
  \/ RequestSettles
  \/ Return

Spec == Init /\ [][Next]_vars

\* the client alone, constructed with any of the configured models
ClientSpecInit == PipelineInit /\ ClientInit(ConfiguredModels)

ClientNext ==
  \/ CheckOllamaConnection
  \/ EnsureModelExists
  \/ PullModel
  \/ VersionSettles
  \/ TagsSettles
  \/ PullSettles
  \/ SwitchModel
  \/ ListSettles
  \/ CheckReturn

SpecClient == ClientSpecInit /\ [][ClientNext]_vars

\* generateResponse and switchModel called side by side on one client
ConcurrentNext ==
  \/ StartGenerateResponse
  \/ StartSwitchModel
  \/ GenerateSettles
  \/ ListModelsSettles

SpecConcurrent == Init /\ [][ConcurrentNext]_vars

(***************************************************************************)
(* Properties                                                              *)
(***************************************************************************)
\* the reply the extractor was given, when generateResponse returned one
Reply == gen.value
Received == pc = "done" /\ ~gen.raised

\* C1: every content operation returns a record and never raises, however the
\* generation call ends; when generateResponse raises, the record returned is
\* the static fallback record of the kind.
C1_OperationsAreTotal ==
  pc = "done" =>
    /\ ~result.raised
    /\ result.record # NoRecord
    /\ gen.raised =>
         /\ result.path = "fallback"
         /\ result.record = Fallback(req.kind, req.city)

C1_Witness ==
  /\ pc = "done"
  /\ req.kind = "weather"
  /\ settled = Rejected(TimeoutExceeded)
  /\ gen.raised
  /\ ~result.raised
  /\ result.record = GetFallbackWeatherData

\* the fields a record of each kind must always have a value in
RequiredFields(kind) ==
  CASE kind = "weather" -> {"icon", "condition", "forecast", "summary"}
    [] kind = "trip" -> {"icon", "title", "description", "activities"}
    [] kind = "tips" -> {"tip"}

\* C2: every record a content operation returns has a non-empty value in every
\* required field of its kind.
C2_RequiredFieldsNonEmpty ==
  pc = "done" /\ ~result.raised =>
    \A f \in RequiredFields(req.kind) : result.record[f] # <<>>

\* C3: generateResponse returns the trimmed response text of a successful
\* reply; for a refused connection it raises a new error that says to start
\* the server; for every other failure it raises the underlying error itself.
C3_GenerateResponseOutcomes ==
  pc = "done" =>
    /\ settled.ok /\ IsString(settled.response) =>
         /\ ~gen.raised
         /\ gen.value = Trim(settled.response)
    /\ settled.ok /\ ~IsString(settled.response) =>
         /\ gen.raised
         /\ gen.error.name = "TypeError"
    /\ ~settled.ok /\ settled.error.code = "ECONNREFUSED" =>
         /\ gen.raised
         /\ gen.error.id \notin {e.id : e \in AxiosErrors}
         /\ gen.error.message = "Ollama not running. Please start with: ollama serve"
    /\ ~settled.ok /\ settled.error.code # "ECONNREFUSED" =>
         /\ gen.raised
         /\ gen.error = settled.error

C3_Witness ==
  /\ pc = "done"
  /\ settled = Rejected(ConnectionRefused)
  /\ gen.raised
  /\ gen.error = OllamaNotRunning

\* the labels the extractor of each kind knows
Labels(kind) ==
  CASE kind = "weather" -> {LabelTemperature, LabelCondition, LabelEnglishCondition,
                            LabelForecast, LabelSummaryEnglish}
    [] kind = "trip" -> {LabelTitle, LabelDescription, LabelActivities, LabelSummary}
    [] kind = "tips" -> {LabelTip}

\* the places of a text where pat occurs
Occurrences(s, pat) ==
  {i \in 1..Len(s) : i + Len(pat) - 1 <= Len(s) /\ \A k \in 1..Len(pat) : s[i + k - 1] = pat[k]}

\* C4: the record returned when generation fails differs from the record the
\* extractor makes of a received reply in which no label of the kind occurs.
C4_FallbackTiersDiffer ==
  Received /\ (\A l \in Labels(req.kind) : Occurrences(Reply, l) = {}) =>
    result.record # Fallback(req.kind, req.city)

\* the lines of a text, and a line without the white space around it
LinesOf(s) ==
  LET nl == {i \in 1..Len(s) : s[i] = "\n"}
      starts == {1} \cup {i + 1 : i \in nl}
  IN {SubSeq(s, i, SetMin({j \in nl \cup {Len(s) + 1} : j >= i}) - 1) : i \in starts}
Stripped(line) ==
  LET ink == {i \in 1..Len(line) : line[i] \notin Whitespace}
  IN IF ink = {} THEN <<>> ELSE SubSeq(line, SetMin(ink), SetMax(ink))
IsPrefix(pat, s) == Len(pat) <= Len(s) /\ \A k \in 1..Len(pat) : s[k] = pat[k]

\* the lines of the reply that start with the label, stripped
LabelLines(s, label) == {t \in {Stripped(l) : l \in LinesOf(s)} : IsPrefix(label, t)}
\* the value written after the label on such a line
ValueOf(line, label) == Stripped(SubSeq(line, Len(label) + 1, Len(line)))

\* the field of the record each text label fills
FieldOf(label) ==
  CASE label = LabelEnglishCondition -> "condition"
    [] label = LabelForecast -> "forecast"
    [] label = LabelSummaryEnglish -> "summary"
    [] label = LabelTitle -> "title"
    [] label = LabelDescription -> "description"
    [] label = LabelActivities -> "activities"
    [] label = LabelSummary -> "summary"
    [] label = LabelTip -> "tip"
TextLabels(kind) == Labels(kind) \ {LabelTemperature, LabelCondition}

\* a reply whose lines are the labels of the kind, each once, each with a value
WellFormed(kind, s) ==
  /\ \A l \in Labels(kind) :
       /\ Cardinality(LabelLines(s, l)) = 1
       /\ \A t \in LabelLines(s, l) : ValueOf(t, l) # <<>>
  /\ Cardinality({i \in 1..Len(s) : s[i] = "\n"}) + 1 = Cardinality(Labels(kind))

\* C5: from a well-formed reply the extractor returns, for every text field,
\* exactly the text written after the label's colon, trimmed, also when that
\* text holds ':' characters.
C5_ValuesExactlyAsWritten ==
  Received /\ WellFormed(req.kind, Reply) =>
    \A l \in TextLabels(req.kind) : \A t \in LabelLines(Reply, l) :
      result.record[FieldOf(l)] = ValueOf(t, l)

\* the label and the field overflow recovery is about, and the value the line
\* pass of the kind's extractor captured for it
RecoveredLabel(kind) ==
  CASE kind = "weather" -> LabelSummaryEnglish
    [] kind = "trip" -> LabelSummary
    [] kind = "tips" -> LabelTip
LinePassValue(kind, s) ==
  CASE kind = "weather" -> WeatherLinePass(Split(s, "\n")).summary
    [] kind = "trip" -> TripPlanLinePass(Split(s, "\n")).summary
    [] kind = "tips" -> TipLinePass(Split(s, "\n"))
\* all of the text after the first occurrence of the label, stripped
AfterFirstOccurrence(s, label) ==
  Stripped(SubSeq(s, SetMin(Occurrences(s, label)) + Len(label), Len(s)))
RecoveryApplies(kind, s) ==
  /\ Occurrences(s, RecoveredLabel(kind)) # {}
  /\ Len(LinePassValue(kind, s)) < OverflowThreshold

\* C6: the summary or tip is re-captured from just after the first occurrence
\* of its label to the end of the reply exactly when the label occurs in the
\* reply and the line pass captured fewer than 50 characters; otherwise what
\* the line pass captured is kept (an empty outcome is then defaulted).
C6_OverflowRecovery ==
  Received =>
    LET label == RecoveredLabel(req.kind)
        kept == IF RecoveryApplies(req.kind, Reply)
                THEN AfterFirstOccurrence(Reply, label)
                ELSE LinePassValue(req.kind, Reply)
    IN /\ kept # <<>> => result.record[FieldOf(label)] = kept
       /\ kept = <<>> => result.record[FieldOf(label)] # <<>>

C6_Witness ==
  /\ Received
  /\ req.kind = "weather"
  /\ RecoveryApplies("weather", Reply)
  /\ LinePassValue("weather", Reply) # <<>>
  /\ result.record.summary = AfterFirstOccurrence(Reply, LabelSummaryEnglish)
  /\ result.record.summary # LinePassValue("weather", Reply)

\* C7: a single TEMPERATURE line whose value begins with an integer n gives
\* temperature n, 0 and negative n included; 25 stands in only when no integer
\* can be read or there is no such line.
C7_TemperatureAsWritten ==
  Received /\ req.kind = "weather" =>
    LET ts == LabelLines(Reply, LabelTemperature)
    IN /\ ts = {} => result.record.temperature = DefaultTemperature
       /\ Cardinality(ts) = 1 =>
            \A t \in ts :
              LET n == ParseInt(ValueOf(t, LabelTemperature))
              IN result.record.temperature = IF n.nan THEN DefaultTemperature ELSE n.value

\* C8: the day count of every prompt is ceil((end - start) / 86400000) and at
\* least 1 for all dates with start <= end; from 2024-08-15 to 2024-08-17 it is 2.
C8_DayCountAtLeastOne ==
  pc = "awaiting" =>
    /\ prompt.duration * MsPerDay >= prompt.end - prompt.start
    /\ (prompt.duration - 1) * MsPerDay < prompt.end - prompt.start
    /\ prompt.duration >= 1
    /\ prompt.start = 0 /\ prompt.end = 2 * MsPerDay => prompt.duration = 2

\* the part of a name before its first ':'
BaseName(name) ==
  LET colons == {i \in 1..Len(name) : name[i] = ":"}
  IN IF colons = {} THEN name ELSE SubSeq(name, 1, SetMin(colons) - 1)
Named(models) == \A i \in 1..Len(models) : models[i] # Undefined
\* ensureModelExists has a listing of named models in hand
Listed ==
  /\ check.entry \in {"checkOllamaConnection", "ensureModelExists"}
  /\ check.listing = "ok"
  /\ Named(check.models)
Downloads == check.pull # "none"

\* C9 as stated: the target counts as present iff an installed name equals it
\* or has the same part before its first ':'; a download is triggered exactly
\* when it is not present.
C9_PresentByBaseName ==
  Listed =>
    (Downloads <=>
       ~\E i \in 1..Len(check.models) :
          \/ check.models[i] = ollamaModel
          \/ BaseName(check.models[i]) = BaseName(ollamaModel))

\* C9 as amended: the target counts as present iff an installed name equals it
\* or begins with the part of the target name before its first ':'; a download
\* is triggered exactly when it is not present.
C9_PresentByPrefix ==
  Listed =>
    (Downloads <=>
       ~\E i \in 1..Len(check.models) :
          \/ check.models[i] = ollamaModel
          \/ IsPrefix(BaseName(ollamaModel), check.models[i]))

C9_Witness ==
  /\ Listed
  /\ ollamaModel = DefaultModel
  /\ check.models = <<<<"l","l","a","m","a","3",".","2","-","e","x","t","r","a",":","1","b">>>>
  /\ ~Downloads
  /\ check.pc = "done"

\* C10: checkOllamaConnection never raises; it returns false when the version
\* probe fails; it returns true only once the model listing and the download,
\* if one was triggered, have settled, and then whatever their outcome.
C10_ConnectionCheck ==
  check.entry = "checkOllamaConnection" =>
    /\ ~check.raised
    /\ check.pc = "done" => check.returned \in {"true", "false"}
    /\ check.pc = "done" /\ check.probe = "failed" => check.returned = "false"
    /\ check.returned = "true" =>
         /\ check.probe = "ok"
         /\ check.listing \in {"ok", "failed"}
         /\ check.pull \in {"none", "ok", "failed"}
         /\ check.listing = "ok" /\ check.hasModel = "false" => check.pull \in {"ok", "failed"}
    /\ check.pc = "done" /\ check.listing # "none" => check.returned = "true"

C10_Witness ==
  /\ check.entry = "checkOllamaConnection"
  /\ check.pc = "done"
  /\ check.returned = "true"
  /\ check.pull = "failed"

\* C11: when the generation call of a content operation times out, exactly
\* one error line is logged for the request by the client, the inner generation
\* step and the content operation together, and the operation returns the
\* static fallback record of the kind.
C11_OneErrorLineOnTimeout ==
  pc = "done" /\ settled = Rejected(TimeoutExceeded) =>
    /\ ~result.raised
    /\ result.record = Fallback(req.kind, req.city)
    /\ result.errorLines = 1

\* the places in completed of the switches that succeeded
SuccessfulSwitches ==
  {k \in 1..Len(completed) :
     calls[completed[k]].op = "switchModel" /\ calls[completed[k]].returned = "true"}

\* C12: however generateResponse and switchModel calls interleave on one
\* client, every generation request carries the model name that was configured
\* when its call started, also when a switch completes while it is in flight,
\* and the configured model is the one written by the last switch that
\* succeeded (the one the client was constructed with when none has).
C12_ModelAtStartAndLastWrite ==
  /\ \A i \in 1..Len(calls) :
       calls[i].op = "generateResponse" =>
         /\ calls[i].request.model = calls[i].configured
         /\ calls[i].pc = "done" => calls[i].sent = calls[i].configured
  /\ SuccessfulSwitches = {} => ollamaModel = DefaultModel
  /\ SuccessfulSwitches # {} =>
       ollamaModel = calls[completed[SetMax(SuccessfulSwitches)]].newModel

\* a switch that started after a generation call succeeded before that call
\* settled, and a later switch to another model succeeded after an earlier one
C12_Witness ==
  /\ Len(completed) = 3
  /\ calls[1].op = "generateResponse"
  /\ calls[2].op = "switchModel"
  /\ calls[3].op = "switchModel"
  /\ completed = <<3, 2, 1>>
  /\ calls[2].returned = "true"
  /\ calls[3].returned = "true"
  /\ calls[2].newModel # calls[3].newModel
  /\ calls[1].sent = DefaultModel
  /\ ollamaModel = calls[2].newModel
  /\ ollamaModel # DefaultModel

\* C13: from an empty reply the weather extractor raises nothing and returns
\* a record without an empty field: temperature 25, condition 'Pleasant
\* weather', the default icon, and the default forecast and summary made of the
\* city and those values.
C13_EmptyReplyDefaults ==
  Received /\ req.kind = "weather" /\ Reply = <<>> =>
    /\ ~result.raised
    /\ result.path = "normal"
    /\ result.record.temperature = 25
    /\ result.record.condition = <<"P","l","e","a","s","a","n","t"," ","w","e","a","t","h",
        "e","r">>
    /\ result.record.icon = Glyph("sun-behind-cloud")
    /\ result.record.forecast =
         Glyph("sun-behind-cloud") \o <<" ","F","o","r","e","c","a","s","t"," ","f","o","r",
             " ">> \o req.city
           \o <<":"," ","P","l","e","a","s","a","n","t"," ","w","e","a","t","h","e","r",",",
               " ","t","e","m","p","e","r","a","t","u","r","e"," ","2","5">> \o Glyph("degree") \o <<"C">>
    /\ result.record.summary =
         <<"T","h","e"," ","w","e","a","t","h","e","r"," ","i","n"," ">> \o req.city
           \o <<" ","i","s"," ","e","x","p","e","c","t","e","d"," ","t","o"," ","b","e"," ",
               "P","l","e","a","s","a","n","t"," ","w","e","a","t","h","e","r"," ","w","i",
               "t","h"," ","a"," ","t","e","m","p","e","r","a","t","u","r","e"," ","o","f",
               " ","2","5">>
           \o Glyph("degree") \o <<"C", ".">>
    /\ \A f \in {"icon", "condition", "forecast", "summary"} : result.record[f] # <<>>

\* the server answered with nothing but white space
C13_Witness ==
  /\ Received
  /\ req.kind = "weather"
  /\ req.city = Rome
  /\ settled.ok
  /\ settled.response = <<"\n">>
  /\ Reply = <<>>
  /\ result.path = "normal"
  /\ result.record.temperature = 25

\* the dictionary of getWeatherIcon as the claim lists it, and the default icon
IconDictionary ==
  (<<"s","u","n","n","y">> :> Glyph("sun")) @@ (<<"c","l","e","a","r">> :> Glyph("sun"))
    @@ (<<"p","a","r","t","l","y","-","c","l","o","u","d","y">> :> Glyph("sun-behind-cloud"))
    @@ (<<"c","l","o","u","d","y">> :> Glyph("cloud")) @@ (<<"o","v","e","r","c","a","s","t">> :> Glyph("cloud"))
    @@ (<<"r","a","i","n","y">> :> Glyph("rain-cloud")) @@ (<<"r","a","i","n">> :> Glyph("rain-cloud"))
    @@ (<<"s","t","o","r","m","y">> :> Glyph("storm-cloud")) @@ (<<"s","n","o","w">> :> Glyph("snowflake"))
    @@ (<<"f","o","g">> :> Glyph("fog")) @@ (<<"w","i","n","d","y">> :> Glyph("wind"))
DefaultIcon == Glyph("sun-behind-cloud")

\* C14: for every CONDITION value the icon is the dictionary entry of the
\* lower-cased value when that is one of the eleven keys, and the default icon
\* for every other text; the lookup never raises and the icon is always a text.
C14_IconOfEveryCondition ==
  Received /\ req.kind = "weather" /\ Cardinality(LabelLines(Reply, LabelCondition)) = 1 =>
    \A t \in LabelLines(Reply, LabelCondition) :
      LET key == ToLowerCase(ValueOf(t, LabelCondition))
      IN /\ ~result.raised
         /\ result.path = "normal"
         /\ IsString(result.record.icon)
         /\ key \in DOMAIN IconDictionary => result.record.icon = IconDictionary[key]
         /\ key \notin DOMAIN IconDictionary => result.record.icon = DefaultIcon

\* the text has pat as a substring
Contains(s, pat) == Occurrences(s, pat) # {}

\* C15: the weather prompt built for the city 'Paris', a start and an end date
\* three days apart and the trip 'honeymoon' contains the substrings 'Paris'
\* and '3-day' and each of the five weather labels.
C15_WeatherPromptSubstrings ==
  /\ pc = "awaiting"
  /\ req.kind = "weather"
  /\ req.city = <<"P","a","r","i","s">>
  /\ req.trip = <<"h","o","n","e","y","m","o","o","n">>
  /\ prompt.end - prompt.start = 3 * MsPerDay
  => /\ Contains(prompt.text, <<"P","a","r","i","s">>)
     /\ Contains(prompt.text, <<"3","-","d","a","y">>)
     /\ Contains(prompt.text, <<"T","E","M","P","E","R","A","T","U","R","E",":">>)
     /\ Contains(prompt.text, <<"C","O","N","D","I","T","I","O","N",":">>)
     /\ Contains(prompt.text, <<"E","N","G","L","I","S","H","_","C","O","N","D","I","T","I",
         "O","N",":">>)
     /\ Contains(prompt.text, <<"F","O","R","E","C","A","S","T","_","E","N","G","L","I","S",
         "H",":">>)
     /\ Contains(prompt.text, <<"S","U","M","M","A","R","Y","_","E","N","G","L","I","S","H",
         ":">>)

\* a call of ensureModelExists or pullModel by the client's user
ModelCheckEntries == {"ensureModelExists", "pullModel"}

\* C16: ensureModelExists and pullModel never raise to their caller: when the
\* listing request fails no download is attempted and the operation completes
\* normally, when the download fails or times out the operation completes
\* normally, and every step of these operations leaves the configured model
\* name and the server address as they were.
C16_ModelCheckNeverRaises ==
  [][ /\ check.entry \in ModelCheckEntries \/ check'.entry \in ModelCheckEntries =>
           /\ ollamaModel' = ollamaModel
           /\ ollamaUrl' = ollamaUrl
      /\ check'.entry \in ModelCheckEntries =>
           /\ ~check'.raised
           /\ check'.pc = "done" => check'.returned = "void"
           /\ check'.listing = "failed" => check'.pull = "none" /\ check'.pc = "done"
           /\ check'.pull = "failed" => check'.pc = "done"
    ]_vars

\* the listing request of ensureModelExists failed
C16_Witness ==
  /\ check.entry = "ensureModelExists"
  /\ check.pc = "done"
  /\ check.listing = "failed"
  /\ check.pull = "none"
  /\ check.returned = "void"
  /\ ~check.raised

\* the listing switchModel got holds an entry with exactly this name
ListsExactly(models, name) == \E i \in 1..Len(models) : models[i] = name

\* C17: switchModel(newModel) sets the configured model to newModel and
\* returns true exactly when the listing it got holds an entry whose name
\* equals newModel; otherwise, also when the listing request fails, it returns
\* false and leaves the configured model as it was; it never raises.
C17_SwitchOnlyOnExactMatch ==
  [][ check.pc = "list" /\ check'.pc = "done" =>
        /\ check'.entry = "switchModel"
        /\ ~check'.raised
        /\ check'.returned \in {"true", "false"}
        /\ check'.returned = "true" <=>
             check'.listing = "ok" /\ ListsExactly(check'.models, check.newModel)
        /\ check'.returned = "true" => ollamaModel' = check.newModel
        /\ check'.returned = "false" => ollamaModel' = ollamaModel
        /\ ollamaUrl' = ollamaUrl
    ]_vars

\* a switch to an installed model other than the configured one succeeded
C17_Witness ==
  /\ check.entry = "switchModel"
  /\ check.pc = "done"
  /\ check.returned = "true"
  /\ check.newModel = <<"m","i","s","t","r","a","l",":","7","b">>
  /\ ollamaModel = <<"m","i","s","t","r","a","l",":","7","b">>
  /\ check.models = <<<<"l","l","a","m","a","3",".","2",":","1","b">>, <<"m","i","s","t","r","a","l",":","7","b">>>>

\* a switch to a base name was refused although a tagged model of it is installed
C17_WitnessRefused ==
  /\ check.entry = "switchModel"
  /\ check.pc = "done"
  /\ check.returned = "false"
  /\ check.newModel = <<"l","l","a","m","a","3",".","2">>
  /\ check.models = <<<<"l","l","a","m","a","3",".","2",":","1","b">>>>
  /\ ollamaModel = DefaultModel

\* the places where the lines of a text start, the line that starts at one of
\* them, and the places of the lines that start with the label
LineStarts(s) == {1} \cup {i + 1 : i \in {j \in 1..Len(s) : s[j] = "\n"}}
LineAt(s, i) ==
  SubSeq(s, i, SetMin({j \in i..(Len(s) + 1) : j = Len(s) + 1 \/ s[j] = "\n"}) - 1)
LabelLineStarts(s, label) ==
  {i \in LineStarts(s) : IsPrefix(label, Stripped(LineAt(s, i)))}
FirstLabelLine(s, label) == Stripped(LineAt(s, SetMin(LabelLineStarts(s, label))))
LastLabelLine(s, label) == Stripped(LineAt(s, SetMax(LabelLineStarts(s, label))))

\* the field each label of a kind decides
DecidedField(label) ==
  CASE label = LabelTemperature -> "temperature"
    [] label = LabelCondition -> "icon"
    [] OTHER -> FieldOf(label)

\* what the line pass keeps of the recovered label according to the claim: the
\* value of the last line with the label, of the first one for a tip
KeptOfRecoveredLabel(kind, s) ==
  LET label == RecoveredLabel(kind)
  IN IF LabelLineStarts(s, label) = {} THEN <<>>
     ELSE IF kind = "tips" THEN ValueOf(FirstLabelLine(s, label), label)
     ELSE ValueOf(LastLabelLine(s, label), label)

\* C18: when lines of a reply start with the same label, the weather and the
\* trip plan extractor keep what the last of them says (the field is what that
\* line alone would give), the tip extractor keeps the first TIP line; overflow
\* recovery, when the kept summary or tip is shorter than 50 characters, still
\* starts after the first occurrence of the label, in all three extractors.
C18_DuplicateLabels ==
  Received =>
    /\ \A label \in Labels(req.kind) \ {RecoveredLabel(req.kind)} :
         (/\ LabelLineStarts(Reply, label) # {}
          /\ ValueOf(LastLabelLine(Reply, label), label) # <<>>)
         => result.record[DecidedField(label)]
              = Parse(req.kind, LastLabelLine(Reply, label), req.city).record[DecidedField(label)]
    /\ LET label == RecoveredLabel(req.kind)
           kept == KeptOfRecoveredLabel(req.kind, Reply)
       IN /\ Len(kept) >= OverflowThreshold => result.record[FieldOf(label)] = kept
          /\ (/\ Len(kept) < OverflowThreshold
              /\ Occurrences(Reply, label) # {}
              /\ AfterFirstOccurrence(Reply, label) # <<>>)
             => result.record[FieldOf(label)] = AfterFirstOccurrence(Reply, label)

\* two TIP lines, the first long enough to be kept as it is
C18_Witness ==
  /\ Received
  /\ req.kind = "tips"
  /\ Cardinality(LabelLineStarts(Reply, LabelTip)) = 2
  /\ Len(ValueOf(FirstLabelLine(Reply, LabelTip), LabelTip)) >= OverflowThreshold
  /\ ValueOf(LastLabelLine(Reply, LabelTip), LabelTip) = <<"W","a","l","k">>
  /\ result.record.tip = ValueOf(FirstLabelLine(Reply, LabelTip), LabelTip)

\* two TEMPERATURE lines: the second decides
C18_WitnessLast ==
  /\ Received
  /\ req.kind = "weather"
  /\ Reply = <<"T","E","M","P","E","R","A","T","U","R","E",":"," ","w","a","r","m">> \o <<"\n">> \o <<"T","E","M","P","E","R","A","T","U","R",
      "E",":"," ","-","5"," ","C">>
  /\ result.record.temperature = -5

\* C19: whenever the server answers with a text, generateResponse returns a
\* text and the extractor of the kind completes through its normal path; the
\* degraded branch of an extractor is never entered, so every record a caller
\* receives is a normally extracted one or the static fallback of the service.
C19_DegradedBranchUnreachable ==
  pc = "done" =>
    /\ settled.ok /\ IsString(settled.response) =>
         /\ ~gen.raised
         /\ IsString(gen.value)
         /\ result.path = "normal"
         /\ result.errorLines = 0
    /\ result.path \in {"normal", "fallback"}
    /\ result.path = "fallback" <=> gen.raised
    /\ result.path = "fallback" => result.record = Fallback(req.kind, req.city)

\* a weather reply with label lines that have nothing after the colon
C19_Witness ==
  /\ Received
  /\ req.kind = "weather"
  /\ Reply = <<"E","N","G","L","I","S","H","_","C","O","N","D","I","T","I","O","N",":">> \o <<"\n">> \o <<"T","E","M","P","E","R","A","T","U","R",
      "E",":"," ","w","a","r","m">>
  /\ result.path = "normal"
  /\ result.record.condition = <<>>

====
